---- MODULE Spec2Model ----
(***************************************************************************)
(* Model of the notebook MCP extension: the single-owner HTTP server       *)
(* handoff between editor windows (src/mcp/server.ts, src/extension.ts)    *)
(* and the cell-execution wait (src/utils/notebook.ts).                    *)
(*                                                                         *)
(* Every editor window is one single-threaded process.  A step of the      *)
(* model is one run-to-completion callback of one process; the await       *)
(* points of the code are the boundaries between steps.  An HTTP request   *)
(* is a step of its own: it observes, and acts on, whoever holds the port  *)
(* at the moment it is delivered.  Requests and responses may be lost or   *)
(* time out.  The environment fails a listen() only with EADDRINUSE; the   *)
(* last port of the model stands for the last port there is.               *)
(***************************************************************************)
EXTENDS Integers, Sequences, FiniteSets, TLC

\* ---------------------------------------------------------------- bounds
NumProcs == 2
MaxTasks == 2
MaxPolls == 2
MaxFocus == 2
MaxRestarts == 1
MaxPort == 49778
MaxCells == 3
MaxTime == 400
TimeStep == 50
WaitTimeout == 200

\* ------------------------------------------------------------- constants
DEFAULT_PORT == 49777
PollInterval == 100

Procs == 1..NumProcs
Slots == 1..MaxTasks
Ports == DEFAULT_PORT..MaxPort

VARIABLES
  listeners,    \* OS: the set of <<process, port>> listening sockets
  foreignApp,   \* OS: an unrelated application holds DEFAULT_PORT
  token,        \* extension.ts currentServerResult, per process
  httpServer,   \* server.ts httpServer, per process: a reference
  relCb,        \* per process: pending close callbacks of /release
  inRelease,    \* per process: /release answered, close not yet issued
  task,         \* per process: the async calls in flight
  activated,    \* per process: activate() got past its await
  focusWin,     \* the window holding input focus (0: none of ours)
  timers,       \* per process: pending takeoverDebounce timeouts
  focusEvents,  \* focus-gain events handled so far
  restarts,     \* restart commands issued
  cells,        \* the notebook document: its cells, in order
  wStatus,      \* waitForCellExecution: pending, or how it settled
  interval,     \* waitForCellExecution: the polling timer is set
  now,          \* ms since waitForCellExecution was called
  lastTick,     \* the time of the last poll tick
  ticks,        \* poll ticks run so far
  waitId,       \* waitForCellExecution: the identifier it looks up
  openDocs,     \* workspace.notebookDocuments of this window, by URI
  activeNb,     \* window.activeNotebookEditor: its notebook, or none
  access,       \* the last NotebookAccessResult, with the inputs it saw
  call,         \* the tool call in flight in this window
  nextKey       \* cells made so far by tool calls (host cell objects)

ownVars == <<listeners, foreignApp, token, httpServer, relCb, inRelease, task,
             activated, focusWin, timers, focusEvents, restarts>>

waitVars == <<cells, wStatus, interval, now, lastTick, ticks, waitId>>

toolVars == <<openDocs, activeNb, access, call, nextKey>>

vars == <<ownVars, waitVars, toolVars>>

\* ------------------------------------------------------------ references
\* httpServer is undefined, or refers to an http.Server object: one that
\* listens on a port, one whose listen() is pending (made by a task), or
\* one that is closed or failed.
Undefined == <<"undefined", 0>>
Dead == <<"dead", 0>>
PortRef(q) == <<"port", q>>
TaskRef(k) == <<"task", k>>

\* ServerStartResult
NoResult == [defined |-> FALSE, port |-> DEFAULT_PORT, isExistingServer |-> FALSE]
Result(q, existing) == [defined |-> TRUE, port |-> q, isExistingServer |-> existing]

IsOwner(p) == token[p].defined /\ ~token[p].isExistingServer
IsDeferred(p) == token[p].defined /\ token[p].isExistingServer

IdleTask == [kind |-> "none", pc |-> "idle", port |-> DEFAULT_PORT, polls |-> 0,
             resp |-> FALSE, released |-> FALSE, by |-> 0]

NewTask(kind, pc) == [IdleTask EXCEPT !.kind = kind, !.pc = pc]

Holder(q) == {r \in Procs : <<r, q>> \in listeners}
Occupied(q) == Holder(q) # {} \/ (foreignApp /\ q = DEFAULT_PORT)
FreeSlots(p) == {k \in Slots : task[p][k].pc = "idle"}

\* ------------------------------------------------------------------ Init
InitOwnership ==
  /\ listeners = {}
  /\ foreignApp \in BOOLEAN
  /\ token = [p \in Procs |-> NoResult]
  /\ httpServer = [p \in Procs |-> Undefined]
  /\ relCb = [p \in Procs |-> 0]
  /\ inRelease = [p \in Procs |-> FALSE]
  /\ task = [p \in Procs |-> [k \in Slots |->
               IF k = 1 THEN NewTask("activate", "probeReq") ELSE IdleTask]]
  /\ activated = [p \in Procs |-> FALSE]
  /\ focusWin = 0
  /\ timers = [p \in Procs |-> 0]
  /\ focusEvents = 0
  /\ restarts = 0

\* The cell a waiter tracks carries this identifier in its metadata; other
\* cells carry none.
TrackedId == "id1"
NoId == ""
\* A cell: key stands for the host's cell object (0 where it does not
\* matter which), id for metadata.id, summary for executionSummary, kind
\* for code or markup.
NewCell(key, id, summary) ==
  [key |-> key, id |-> id, summary |-> summary, kind |-> "code"]
Cell(id, summary) == NewCell(0, id, summary)

\* executionSummary: absent; present with success undefined; present with
\* a success that is neither undefined nor a boolean; success true / false.
Summaries == {"absent", "undef", "null", "true", "false"}

InitNoWait ==
  /\ cells = <<>>
  /\ wStatus = "none"
  /\ interval = FALSE
  /\ now = 0
  /\ lastTick = 0
  /\ ticks = 0
  /\ waitId = NoId

\* The notebooks there are: two files that open, and one that does not.
Uris == {"nbA", "nbB", "nbX"}
Openable == {"nbA", "nbB"}
NoUri == ""

\* The window the tool calls are served in.
ThisWindow == 1

NoAccess == [kind |-> "none", uri |-> NoUri, focused |-> FALSE, active |-> NoUri,
             found |-> FALSE, allowed |-> FALSE, notebook |-> NoUri,
             editor |-> NoUri, error |-> ""]
\* A tool call: its arguments, what it holds across its awaits, the edits
\* and host commands it has issued, and its result; done tells that the
\* kernel has finished the execution the call asked for.
NoData == [id |-> NoId, kind |-> "code"]
NoCall == [tool |-> "none", pc |-> "idle", nb |-> NoUri, from |-> 0, to |-> 0,
           exec |-> FALSE, id |-> NoId, idx |-> 0, data |-> NoData, src |-> 0,
           ops |-> <<>>, result |-> "", error |-> "", success |-> "none",
           silent |-> FALSE, done |-> FALSE]

InitTools ==
  /\ openDocs = {}
  /\ activeNb = NoUri
  /\ access = NoAccess
  /\ call = NoCall
  /\ nextKey = 0

Init == InitOwnership /\ InitNoWait /\ InitTools

\* ----------------------------------------------------------- http.Server
\* server.close() on the object a reference names: a listening object gives
\* up its socket at once; a listen() that is pending still takes effect.
CloseListeners(p, ref) ==
  IF ref[1] = "port" THEN listeners \ {<<p, ref[2]>>} ELSE listeners

AfterClose(ref) == IF ref[1] = "port" THEN Dead ELSE ref

\* Mutant: a probe that never recognises our server.
IsServerRunningNever(q, lost) == FALSE

\* isServerRunning(port): true only when a notebook-mcp-server answers
\* /health with status ok; an error, a timeout or a foreign answer is false.
IsServerRunning(q, lost) == ~lost /\ Holder(q) # {}

RespPc(pc) ==
  CASE pc = "probeReq" -> "probeResp"
    [] pc = "pollReq" -> "pollResp"
    [] pc = "errProbeReq" -> "errProbeResp"
    [] pc = "relReq" -> "relResp"

\* The OS bind: a port somebody listens on cannot be bound again.
PortInUse(q) == Occupied(q)

\* The result of a start or takeover lands in currentServerResult.
Finish(p, k, tk, result) ==
  /\ token' = [token EXCEPT ![p] = result]
  /\ task' = [tk EXCEPT ![p][k] = IdleTask]
  /\ activated' = IF task[p][k].kind = "activate"
                  THEN [activated EXCEPT ![p] = TRUE] ELSE activated

\* startMCPServer rejects: the caller's catch shows the error and leaves
\* currentServerResult as it was.
Reject(p, k, tk) ==
  /\ task' = [tk EXCEPT ![p][k] = IdleTask]
  /\ activated' = IF task[p][k].kind = "activate"
                  THEN [activated EXCEPT ![p] = TRUE] ELSE activated
  /\ UNCHANGED token

\* --------------------------------------------------------------- actions
\* A /health request reaches the port (or is lost, or times out).
DeliverHealth(p, k, lost) ==
  /\ ~inRelease[p]
  /\ task[p][k].pc \in {"probeReq", "pollReq", "errProbeReq"}
  /\ LET q == task[p][k].port IN
       /\ \A r \in Holder(q) : lost \/ ~inRelease[r]
       /\ task' = [task EXCEPT ![p][k].resp = IsServerRunning(q, lost),
                               ![p][k].pc = RespPc(@)]
  /\ UNCHANGED <<listeners, foreignApp, token, httpServer, relCb, inRelease,
                 activated, focusWin, timers, focusEvents, restarts>>
  /\ UNCHANGED <<waitVars, toolVars>>

\* startMCPServer after its first probe: defer, or create a server and
\* call listen().
AfterProbe(p, k) ==
  /\ ~inRelease[p]
  /\ task[p][k].pc = "probeResp"
  /\ IF task[p][k].resp
     THEN /\ Finish(p, k, task, Result(task[p][k].port, TRUE))
          /\ UNCHANGED httpServer
     ELSE /\ httpServer' = [httpServer EXCEPT ![p] = TaskRef(k)]
          /\ task' = [task EXCEPT ![p][k].pc = "bindPending",
                                  ![p][k].resp = FALSE]
          /\ UNCHANGED <<token, activated>>
  /\ UNCHANGED <<listeners, foreignApp, relCb, inRelease, focusWin, timers,
                 focusEvents, restarts>>
  /\ UNCHANGED <<waitVars, toolVars>>

\* listen() succeeds: the callback resolves {port, isExistingServer: false}.
BindOk(p, k) ==
  /\ ~inRelease[p]
  /\ task[p][k].pc = "bindPending"
  /\ ~PortInUse(task[p][k].port)
  /\ listeners' = listeners \cup {<<p, task[p][k].port>>}
  /\ httpServer' = IF httpServer[p] = TaskRef(k)
                   THEN [httpServer EXCEPT ![p] = PortRef(task[p][k].port)]
                   ELSE httpServer
  /\ Finish(p, k, task, Result(task[p][k].port, FALSE))
  /\ UNCHANGED <<foreignApp, relCb, inRelease, focusWin, timers, focusEvents,
                 restarts>>
  /\ UNCHANGED <<waitVars, toolVars>>

\* Mutant: the EADDRINUSE handler reports the port as its own.
BindInUseReportsOwner(p, k) ==
  /\ ~inRelease[p]
  /\ task[p][k].pc = "bindPending"
  /\ PortInUse(task[p][k].port)
  /\ Finish(p, k, task, Result(task[p][k].port, FALSE))
  /\ UNCHANGED <<listeners, foreignApp, httpServer, relCb, inRelease, focusWin,
                 timers, focusEvents, restarts>>
  /\ UNCHANGED <<waitVars, toolVars>>

\* Mutant: on EADDRINUSE the next port is tried without a probe.
BindInUseNoProbe(p, k) ==
  /\ ~inRelease[p]
  /\ task[p][k].pc = "bindPending"
  /\ PortInUse(task[p][k].port)
  /\ LET ref == httpServer[p] IN
       /\ listeners' = CloseListeners(p, ref)
       /\ httpServer' = [httpServer EXCEPT ![p] =
                           IF ref = TaskRef(k) THEN Dead ELSE AfterClose(ref)]
       /\ task' = IF task[p][k].port < MaxPort
                  THEN [task EXCEPT ![p][k].pc = "probeReq", ![p][k].port = @ + 1]
                  ELSE [task EXCEPT ![p][k].pc = "errProbeReq"]
  /\ UNCHANGED <<foreignApp, token, relCb, inRelease, activated, focusWin,
                 timers, focusEvents, restarts>>
  /\ UNCHANGED <<waitVars, toolVars>>

\* listen() fails with EADDRINUSE: the error handler closes whatever
\* httpServer names now and probes the port again.
BindInUse(p, k) ==
  /\ ~inRelease[p]
  /\ task[p][k].pc = "bindPending"
  /\ PortInUse(task[p][k].port)
  /\ LET ref == httpServer[p] IN
       /\ listeners' = CloseListeners(p, ref)
       /\ httpServer' = [httpServer EXCEPT ![p] =
                           IF ref = TaskRef(k) THEN Dead ELSE AfterClose(ref)]
       /\ task' = [task EXCEPT ![p][k].pc = "errProbeReq"]
  /\ UNCHANGED <<foreignApp, token, relCb, inRelease, activated, focusWin,
                 timers, focusEvents, restarts>>
  /\ UNCHANGED <<waitVars, toolVars>>

\* The EADDRINUSE handler after its probe: defer to our server, or try the
\* next port; past the last port listen() throws and the call rejects.
AfterErrProbe(p, k) ==
  /\ ~inRelease[p]
  /\ task[p][k].pc = "errProbeResp"
  /\ IF task[p][k].resp
     THEN Finish(p, k, task, Result(task[p][k].port, TRUE))
     ELSE IF task[p][k].port < MaxPort
     THEN /\ task' = [task EXCEPT ![p][k].pc = "probeReq",
                                  ![p][k].resp = FALSE,
                                  ![p][k].port = @ + 1]
          /\ UNCHANGED <<token, activated>>
     ELSE Reject(p, k, task)
  /\ UNCHANGED <<listeners, foreignApp, httpServer, relCb, inRelease, focusWin,
                 timers, focusEvents, restarts>>
  /\ UNCHANGED <<waitVars, toolVars>>

\* requestServerRelease: the POST /release reaches the port.  The handler
\* of the listening process closes its transports and answers 200; its
\* close of the server is the next thing that process does (ReleaseClose).
\* fate: the exchange works, the request is lost (refused, timed out), or
\* the handler runs and its answer is lost.  The field by records which
\* process handled the request (0: none of ours).
DeliverRelease(p, k, fate) ==
  /\ ~inRelease[p]
  /\ task[p][k].pc = "relReq"
  /\ LET q == task[p][k].port
         handled == fate # "reqLost" /\ Holder(q) # {}
         ok == /\ fate = "ok"
               /\ Holder(q) # {} \/ (foreignApp /\ q = DEFAULT_PORT)
     IN
       /\ \A r \in Holder(q) : handled => ~inRelease[r]
       /\ inRelease' = [r \in Procs |->
                          IF handled /\ r \in Holder(q) THEN TRUE ELSE inRelease[r]]
       /\ task' = [task EXCEPT ![p][k].resp = ok,
                               ![p][k].released = ok,
                               ![p][k].by = IF handled
                                            THEN CHOOSE r \in Holder(q) : TRUE
                                            ELSE 0,
                               ![p][k].pc = RespPc(@)]
  /\ UNCHANGED <<listeners, foreignApp, token, httpServer, relCb, activated,
                 focusWin, timers, focusEvents, restarts>>
  /\ UNCHANGED <<waitVars, toolVars>>

\* The /release handler after its answer: httpServer?.close(callback).
ReleaseClose(r) ==
  /\ inRelease[r]
  /\ inRelease' = [inRelease EXCEPT ![r] = FALSE]
  /\ LET ref == httpServer[r] IN
       /\ listeners' = CloseListeners(r, ref)
       /\ httpServer' = [httpServer EXCEPT ![r] = AfterClose(ref)]
       /\ relCb' = [relCb EXCEPT ![r] = IF ref = Undefined THEN @ ELSE @ + 1]
  /\ UNCHANGED <<foreignApp, token, task, activated, focusWin, timers,
                 focusEvents, restarts>>
  /\ UNCHANGED <<waitVars, toolVars>>

\* The close callback of the /release handler, with onReleaseCallback.
ReleaseCallback(r) ==
  /\ ~inRelease[r]
  /\ relCb[r] > 0
  /\ relCb' = [relCb EXCEPT ![r] = @ - 1]
  /\ httpServer' = [httpServer EXCEPT ![r] = Undefined]
  /\ token' = [token EXCEPT ![r] = Result(DEFAULT_PORT, TRUE)]
  /\ UNCHANGED <<listeners, foreignApp, inRelease, task, activated, focusWin,
                 timers, focusEvents, restarts>>
  /\ UNCHANGED <<waitVars, toolVars>>

\* takeOverServer / restart command after requestServerRelease.
AfterRelease(p, k) ==
  /\ ~inRelease[p]
  /\ task[p][k].pc = "relResp"
  /\ task' = [task EXCEPT ![p][k].pc =
                IF task[p][k].kind = "restart" \/ task[p][k].resp
                THEN "pollReq" ELSE "probeReq",
              ![p][k].resp = FALSE,
              ![p][k].polls =
                IF task[p][k].kind = "restart" \/ task[p][k].resp THEN 1 ELSE 0]
  /\ UNCHANGED <<listeners, foreignApp, token, httpServer, relCb, inRelease,
                 activated, focusWin, timers, focusEvents, restarts>>
  /\ UNCHANGED <<waitVars, toolVars>>

\* Mutant: the poll loop without its time budget.
AfterPollNoBudget(p, k, timeUp) ==
  /\ ~inRelease[p]
  /\ task[p][k].pc = "pollResp"
  /\ task' = [task EXCEPT ![p][k].pc =
                IF ~task[p][k].resp THEN "probeReq" ELSE "pollReq",
              ![p][k].resp = FALSE,
              ![p][k].polls = IF ~task[p][k].resp THEN 0 ELSE @]
  /\ UNCHANGED <<listeners, foreignApp, token, httpServer, relCb, inRelease,
                 activated, focusWin, timers, focusEvents, restarts>>
  /\ UNCHANGED <<waitVars, toolVars>>

\* The bounded poll for the port to fall silent, then startMCPServer.
AfterPoll(p, k, timeUp) ==
  /\ ~inRelease[p]
  /\ task[p][k].pc = "pollResp"
  /\ task[p][k].polls >= MaxPolls => timeUp
  /\ task' = [task EXCEPT ![p][k].pc =
                IF ~task[p][k].resp \/ timeUp THEN "probeReq" ELSE "pollReq",
              ![p][k].resp = FALSE,
              ![p][k].polls =
                IF ~task[p][k].resp \/ timeUp THEN 0 ELSE @ + 1]
  /\ UNCHANGED <<listeners, foreignApp, token, httpServer, relCb, inRelease,
                 activated, focusWin, timers, focusEvents, restarts>>
  /\ UNCHANGED <<waitVars, toolVars>>

\* Mutant: the pending timer is not cleared before a new one is set.
ArmDebounceNoClear(n) == n + 1

\* onDidChangeWindowState(focused): clearTimeout, then setTimeout(500).
ArmDebounce(n) == (IF n > 0 THEN n - 1 ELSE n) + 1

FocusGain(p) ==
  /\ focusWin # p
  /\ focusWin' = p
  /\ IF activated[p] /\ ~inRelease[p]
     THEN /\ focusEvents < MaxFocus
          /\ focusEvents' = focusEvents + 1
          /\ timers' = [timers EXCEPT ![p] = ArmDebounce(@)]
     ELSE /\ ~activated[p]
          /\ UNCHANGED <<focusEvents, timers>>
  /\ UNCHANGED <<listeners, foreignApp, token, httpServer, relCb, inRelease,
                 task, activated, restarts>>
  /\ UNCHANGED <<waitVars, toolVars>>

\* The window loses focus: the handler does nothing, the timer stays.
FocusLoss ==
  /\ focusWin # 0
  /\ focusWin' = 0
  /\ UNCHANGED <<listeners, foreignApp, token, httpServer, relCb, inRelease,
                 task, activated, timers, focusEvents, restarts>>
  /\ UNCHANGED <<waitVars, toolVars>>

\* The debounce timer fires: takeOverServer.
TakeOverServer(p) ==
  /\ ~inRelease[p]
  /\ timers[p] > 0
  /\ timers' = [timers EXCEPT ![p] = @ - 1]
  /\ IF IsOwner(p)
     THEN UNCHANGED task
     ELSE \E k \in FreeSlots(p) :
            /\ \A j \in FreeSlots(p) : k <= j
            /\ task' = [task EXCEPT ![p][k] = NewTask("takeover", "relReq")]
  /\ UNCHANGED <<listeners, foreignApp, token, httpServer, relCb, inRelease,
                 activated, focusWin, focusEvents, restarts>>
  /\ UNCHANGED <<waitVars, toolVars>>

\* The restart command: stopMCPServer, then requestServerRelease.
RestartCommand(p) ==
  /\ ~inRelease[p]
  /\ activated[p]
  /\ restarts < MaxRestarts
  /\ restarts' = restarts + 1
  /\ \E k \in FreeSlots(p) :
       /\ \A j \in FreeSlots(p) : k <= j
       /\ LET ref == httpServer[p] IN
            /\ listeners' = CloseListeners(p, ref)
            /\ httpServer' = [httpServer EXCEPT ![p] = AfterClose(ref)]
            /\ task' = [task EXCEPT ![p][k] =
                          NewTask("restart",
                                  IF ref = Undefined THEN "relReq" ELSE "stopWait")]
  /\ UNCHANGED <<foreignApp, token, relCb, inRelease, activated, focusWin,
                 timers, focusEvents>>
  /\ UNCHANGED <<waitVars, toolVars>>

\* The close callback of stopMCPServer.
StopCallback(p, k) ==
  /\ ~inRelease[p]
  /\ task[p][k].pc = "stopWait"
  /\ httpServer' = [httpServer EXCEPT ![p] = Undefined]
  /\ task' = [task EXCEPT ![p][k].pc = "relReq"]
  /\ UNCHANGED <<listeners, foreignApp, token, relCb, inRelease, activated,
                 focusWin, timers, focusEvents, restarts>>
  /\ UNCHANGED <<waitVars, toolVars>>

\* ------------------------------------------------------------------ Next
Fates == {"ok", "reqLost", "respLost"}

Next ==
  \/ \E p \in Procs, k \in Slots, lost \in BOOLEAN : DeliverHealth(p, k, lost)
  \/ \E p \in Procs, k \in Slots : AfterProbe(p, k)
  \/ \E p \in Procs, k \in Slots : BindOk(p, k)
  \/ \E p \in Procs, k \in Slots : BindInUse(p, k)
  \/ \E p \in Procs, k \in Slots : AfterErrProbe(p, k)
  \/ \E p \in Procs, k \in Slots, fate \in Fates : DeliverRelease(p, k, fate)
  \/ \E r \in Procs : ReleaseClose(r)
  \/ \E r \in Procs : ReleaseCallback(r)
  \/ \E p \in Procs, k \in Slots : AfterRelease(p, k)
  \/ \E p \in Procs, k \in Slots, timeUp \in BOOLEAN : AfterPoll(p, k, timeUp)
  \/ \E p \in Procs : FocusGain(p)
  \/ FocusLoss
  \/ \E p \in Procs : TakeOverServer(p)
  \/ \E p \in Procs : RestartCommand(p)
  \/ \E p \in Procs, k \in Slots : StopCallback(p, k)

Spec == Init /\ [][Next]_vars

\* ------------------------------------------------------- calls in flight
\* The steps of the call in slot k of process p.
TaskStep(p, k) ==
  \/ \E lost \in BOOLEAN : DeliverHealth(p, k, lost)
  \/ AfterProbe(p, k)
  \/ BindOk(p, k)
  \/ BindInUse(p, k)
  \/ AfterErrProbe(p, k)
  \/ \E fate \in Fates : DeliverRelease(p, k, fate)
  \/ AfterRelease(p, k)
  \/ \E timeUp \in BOOLEAN : AfterPoll(p, k, timeUp)
  \/ StopCallback(p, k)

\* ------------------------------------------------- activation on its own
\* Two windows start at once, with reliable local HTTP and no user event.
StartNext ==
  \/ \E p \in Procs, k \in Slots : DeliverHealth(p, k, FALSE)
  \/ \E p \in Procs, k \in Slots : AfterProbe(p, k)
  \/ \E p \in Procs, k \in Slots : BindOk(p, k)
  \/ \E p \in Procs, k \in Slots : BindInUse(p, k)
  \/ \E p \in Procs, k \in Slots : AfterErrProbe(p, k)

SpecStart == Init /\ [][StartNext]_vars

\* --------------------------------------------------- waitForCellExecution
\* notebook.getCells().find(c => c.metadata.id === cellId): the index of
\* the first cell that carries the identifier, 0 when there is none.
FindCell(cs, id) ==
  IF \E i \in 1..Len(cs) : cs[i].id = id
  THEN CHOOSE i \in 1..Len(cs) :
         cs[i].id = id /\ \A j \in 1..(i - 1) : cs[j].id # id
  ELSE 0

\* Mutant: cell.executionSummary?.success !== undefined
SuccessDefined(summary) == summary \notin {"absent", "undef"}

\* typeof cell.executionSummary?.success === 'boolean'
SuccessIsBoolean(summary) == summary \in {"true", "false"}

\* Mutant: the wait times out as soon as the timeout is reached.
PollOutcomeAtTimeout(cs, id, elapsed, timeout) ==
  IF FindCell(cs, id) = 0 THEN "notFound"
  ELSE IF SuccessIsBoolean(cs[FindCell(cs, id)].summary) THEN "resolved"
  ELSE IF elapsed >= timeout THEN "timedOut"
  ELSE "pending"

\* Mutant: the timeout is tested before the cell is looked up.
PollOutcomeTimeoutFirst(cs, id, elapsed, timeout) ==
  IF elapsed > timeout
       /\ ~(\E i \in 1..Len(cs) : cs[i].id = id /\ cs[i].summary \in {"true", "false"})
  THEN "timedOut"
  ELSE IF \A i \in 1..Len(cs) : cs[i].id # id THEN "notFound"
  ELSE IF \E i \in 1..Len(cs) : cs[i].id = id /\ cs[i].summary \in {"true", "false"}
       THEN "resolved"
  ELSE "pending"

\* One run of the interval callback: what it does to the wait.
PollOutcome(cs, id, elapsed, timeout) ==
  IF FindCell(cs, id) = 0 THEN "notFound"
  ELSE IF SuccessIsBoolean(cs[FindCell(cs, id)].summary) THEN "resolved"
  ELSE IF elapsed > timeout THEN "timedOut"
  ELSE "pending"

\* Mutant: a tick that leaves the wait pending resets the summary of the
\* cell it looked at.
WaitTickTouchesCell ==
  /\ interval
  /\ now - lastTick >= PollInterval
  /\ lastTick' = now
  /\ ticks' = ticks + 1
  /\ wStatus' = PollOutcome(cells, waitId, now, WaitTimeout)
  /\ interval' = (wStatus' = "pending")
  /\ cells' = IF wStatus' = "pending"
              THEN [cells EXCEPT ![FindCell(cells, waitId)].summary = "absent"]
              ELSE cells
  /\ UNCHANGED <<now, waitId>>
  /\ UNCHANGED <<ownVars, toolVars>>

\* Mutant: the callback never calls clearInterval.
WaitTickKeepsTimer ==
  /\ interval
  /\ now - lastTick >= PollInterval
  /\ lastTick' = now
  /\ ticks' = ticks + 1
  /\ wStatus' = PollOutcome(cells, waitId, now, WaitTimeout)
  /\ interval' = TRUE
  /\ UNCHANGED <<cells, now, waitId>>
  /\ UNCHANGED <<ownVars, toolVars>>

\* setInterval(..., 100): a tick comes no sooner than the interval.
WaitTick ==
  /\ interval
  /\ now - lastTick >= PollInterval
  /\ lastTick' = now
  /\ ticks' = ticks + 1
  /\ wStatus' = PollOutcome(cells, waitId, now, WaitTimeout)
  /\ interval' = (wStatus' = "pending")
  /\ UNCHANGED <<cells, now, waitId>>
  /\ UNCHANGED <<ownVars, toolVars>>

Advance ==
  /\ now < MaxTime
  /\ now' = now + TimeStep
  /\ UNCHANGED <<cells, wStatus, interval, lastTick, ticks, waitId>>
  /\ UNCHANGED <<ownVars, toolVars>>

\* The host creates the summary when an execution is requested ...
KernelStart(i, s) ==
  /\ i \in 1..Len(cells)
  /\ s \in {"undef", "null"}
  /\ cells[i].summary # s
  /\ cells' = [cells EXCEPT ![i].summary = s]
  /\ UNCHANGED <<wStatus, interval, now, lastTick, ticks, waitId>>
  /\ UNCHANGED <<ownVars, toolVars>>

\* ... and sets success when the kernel is done.
KernelFinish(i, ok) ==
  /\ i \in 1..Len(cells)
  /\ cells[i].summary \in {"undef", "null"}
  /\ cells' = [cells EXCEPT ![i].summary = IF ok THEN "true" ELSE "false"]
  /\ UNCHANGED <<wStatus, interval, now, lastTick, ticks, waitId>>
  /\ UNCHANGED <<ownVars, toolVars>>

\* The user (or another tool call) deletes or inserts a cell meanwhile.
UserDelete(i) ==
  /\ i \in 1..Len(cells)
  /\ cells' = SubSeq(cells, 1, i - 1) \o SubSeq(cells, i + 1, Len(cells))
  /\ UNCHANGED <<wStatus, interval, now, lastTick, ticks, waitId>>
  /\ UNCHANGED <<ownVars, toolVars>>

UserInsert(i) ==
  /\ Len(cells) < MaxCells
  /\ i \in 1..(Len(cells) + 1)
  /\ cells' = SubSeq(cells, 1, i - 1) \o <<Cell(NoId, "absent")>>
                 \o SubSeq(cells, i, Len(cells))
  /\ UNCHANGED <<wStatus, interval, now, lastTick, ticks, waitId>>
  /\ UNCHANGED <<ownVars, toolVars>>

\* The wait starts on a document that holds the tracked cell once.
InitWait ==
  /\ InitOwnership
  /\ foreignApp = FALSE
  /\ cells \in {<<Cell(TrackedId, "absent")>>,
                <<Cell(NoId, "absent"), Cell(TrackedId, "absent")>>,
                <<Cell(NoId, "true"), Cell(TrackedId, "absent")>>}
  /\ wStatus = "pending"
  /\ interval = TRUE
  /\ now = 0
  /\ lastTick = 0
  /\ ticks = 0
  /\ waitId = TrackedId
  /\ InitTools

WaitNext ==
  \/ WaitTick
  \/ Advance
  \/ \E i \in 1..MaxCells, s \in Summaries : KernelStart(i, s)
  \/ \E i \in 1..MaxCells, ok \in BOOLEAN : KernelFinish(i, ok)
  \/ \E i \in 1..MaxCells : UserDelete(i)
  \/ \E i \in 1..MaxCells : UserInsert(i)

SpecWait == InitWait /\ [][WaitNext]_vars

\* ----------------------------------------------------------- AccessGuard
ErrNotFound == "Notebook not found"
ErrNoActive == "No active notebook"
ErrNotFocused == "window is not focused; switch to it or click Activate"

Allowed(nb, ed) == [allowed |-> TRUE, notebook |-> nb, editor |-> ed, error |-> ""]
Denied(err) == [allowed |-> FALSE, notebook |-> NoUri, editor |-> NoUri, error |-> err]

\* getNotebookByUri: the open document of that URI, else the document as
\* openNotebookDocument opens it, else undefined.
GetNotebookByUri(uri, docs) ==
  IF uri \in docs THEN uri
  ELSE IF uri \in Openable THEN uri
  ELSE NoUri

\* getNotebookEditor: the visible editor of the notebook, if there is one;
\* vis tells whether it is visible when it is not the active one.
GetNotebookEditor(nb, active, vis) == IF nb = active \/ vis THEN nb ELSE NoUri

\* resolveNotebook(notebookUri): an explicit URI first, else the active
\* notebook editor.
ResolveNotebook(uri, docs, active, vis) ==
  IF uri # NoUri
  THEN IF GetNotebookByUri(uri, docs) = NoUri
       THEN Denied(ErrNotFound)
       ELSE Allowed(GetNotebookByUri(uri, docs),
                    GetNotebookEditor(GetNotebookByUri(uri, docs), active, vis))
  ELSE IF active = NoUri
       THEN Denied(ErrNoActive)
       ELSE Allowed(active, active)

\* Mutant: the focus test of the version without a URI parameter.
CheckCanModifyAlwaysFocus(uri, docs, active, vis, focused) ==
  IF ~ResolveNotebook(uri, docs, active, vis).allowed
  THEN ResolveNotebook(uri, docs, active, vis)
  ELSE IF ~focused THEN Denied(ErrNotFocused)
  ELSE ResolveNotebook(uri, docs, active, vis)

\* checkCanModifyNotebook(notebookUri)
CheckCanModifyNotebook(uri, docs, active, vis, focused) ==
  IF ~ResolveNotebook(uri, docs, active, vis).allowed
  THEN ResolveNotebook(uri, docs, active, vis)
  ELSE IF uri = NoUri /\ ~focused THEN Denied(ErrNotFocused)
  ELSE ResolveNotebook(uri, docs, active, vis)

\* Mutant: reading asks for focus as modifying does.
CheckCanReadNeedsFocus(uri, docs, active, vis, focused) ==
  CheckCanModifyNotebook(uri, docs, active, vis, focused)

\* checkCanReadNotebook(notebookUri): no focus requirement.
CheckCanReadNotebook(uri, docs, active, vis, focused) ==
  ResolveNotebook(uri, docs, active, vis)

Focused == focusWin = ThisWindow

\* One evaluation of a guard; opening the notebook of an explicit URI
\* adds it to the open documents.
CheckAccess(kind, uri, vis) ==
  /\ kind \in {"read", "modify"}
  /\ LET r == IF kind = "read"
              THEN CheckCanReadNotebook(uri, openDocs, activeNb, vis, Focused)
              ELSE CheckCanModifyNotebook(uri, openDocs, activeNb, vis, Focused)
     IN access' = [kind |-> kind, uri |-> uri, focused |-> Focused,
                   active |-> activeNb,
                   found |-> (uri \in openDocs \/ uri \in Openable),
                   allowed |-> r.allowed, notebook |-> r.notebook,
                   editor |-> r.editor, error |-> r.error]
  /\ openDocs' = IF uri # NoUri /\ GetNotebookByUri(uri, openDocs) # NoUri
                 THEN openDocs \cup {uri} ELSE openDocs
  /\ UNCHANGED <<activeNb, call, nextKey>>
  /\ UNCHANGED <<ownVars, waitVars>>

\* The user opens a notebook (it becomes the active editor), closes one,
\* or switches to another editor (NoUri: one that is no notebook).
OpenNotebook(u) ==
  /\ u \in Openable \ openDocs
  /\ openDocs' = openDocs \cup {u}
  /\ activeNb' = u
  /\ UNCHANGED <<access, call, nextKey>>
  /\ UNCHANGED <<ownVars, waitVars>>

CloseNotebook(u) ==
  /\ u \in openDocs
  /\ openDocs' = openDocs \ {u}
  /\ activeNb' = IF activeNb = u THEN NoUri ELSE activeNb
  /\ UNCHANGED <<access, call, nextKey>>
  /\ UNCHANGED <<ownVars, waitVars>>

SwitchEditor(u) ==
  /\ u \in openDocs \cup {NoUri}
  /\ u # activeNb
  /\ activeNb' = u
  /\ UNCHANGED <<openDocs, access, call, nextKey>>
  /\ UNCHANGED <<ownVars, waitVars>>

GuardNext ==
  \/ \E kind \in {"read", "modify"}, uri \in Uris \cup {NoUri}, vis \in BOOLEAN :
       CheckAccess(kind, uri, vis)
  \/ \E u \in Uris : OpenNotebook(u)
  \/ \E u \in Uris : CloseNotebook(u)
  \/ \E u \in Uris \cup {NoUri} : SwitchEditor(u)
  \/ \E p \in Procs : FocusGain(p)
  \/ FocusLoss

SpecGuard == Init /\ [][GuardNext]_vars

\* ------------------------------------------------------- notebook tools
MaxDoc == 6
MaxKeys == 2
MaxIndex == 3

Min(a, b) == IF a < b THEN a ELSE b

\* The host applies NotebookEdit.insertCells(index, cells) and
\* NotebookEdit.deleteCells(range) as one splice of the cell list; indexes
\* are 0-based.
InsertAt(cs, index, new) ==
  SubSeq(cs, 1, Min(index, Len(cs))) \o new
    \o SubSeq(cs, Min(index, Len(cs)) + 1, Len(cs))

DeleteAt(cs, index, count) ==
  SubSeq(cs, 1, Min(index, Len(cs))) \o SubSeq(cs, index + count + 1, Len(cs))

\* The host's object of the next cell a tool call makes.
FreshKey == MaxDoc + nextKey + 1

\* An edit or host command as a tool call issues it: applied tells whether
\* the host applied it (applyEdit's boolean, which the code drops).
Op(op, at, applied) ==
  [op |-> op, at |-> at, applied |-> applied, focused |-> Focused]

\* The guard as the tool handlers call it: no URI argument.
ToolGuard == CheckCanModifyNotebook(NoUri, openDocs, activeNb, FALSE, Focused)

\* A handler that returns before its first await.
ReturnNow(tool, result, error) ==
  call' = [NoCall EXCEPT !.tool = tool, !.result = result, !.error = error]

\* The same, of a tool that was given indexes.
ReturnAt(tool, result, error, from, to) ==
  call' = [NoCall EXCEPT !.tool = tool, !.result = result, !.error = error,
                         !.from = from, !.to = to]

\* Mutant: the target index is used as it was given.
AdjustedIndexNoShift(from, to) == to

\* moveCell: the index of the re-insert, after the delete at from.
AdjustedIndex(from, to) == IF from < to THEN to - 1 ELSE to

\* notebook_move_cell up to the first await of moveCell: the guard, the
\* range check, the copy of the cell's data, deleteCells(from, 1).
NotebookMoveCell(from, to, applied) ==
  /\ call.pc = "idle"
  /\ IF ~ToolGuard.allowed
     THEN /\ ReturnAt("move", "error", ToolGuard.error, from, to)
          /\ UNCHANGED cells
     ELSE IF from >= Len(cells) \/ to >= Len(cells)
     THEN /\ ReturnAt("move", "error", "Cell index out of range", from, to)
          /\ UNCHANGED cells
     ELSE IF from = to
     THEN /\ ReturnAt("move", "already", "", from, to)
          /\ UNCHANGED cells
     ELSE /\ nextKey < MaxKeys
          /\ call' = [NoCall EXCEPT
                        !.tool = "move", !.pc = "moveDeleted",
                        !.nb = ToolGuard.notebook, !.from = from, !.to = to,
                        !.data = [id |-> cells[from + 1].id,
                                  kind |-> cells[from + 1].kind],
                        !.src = cells[from + 1].key,
                        !.ops = <<Op("delete", from, applied)>>]
          /\ cells' = IF applied THEN DeleteAt(cells, from, 1) ELSE cells
  /\ UNCHANGED <<openDocs, activeNb, access, nextKey>>
  /\ UNCHANGED <<wStatus, interval, now, lastTick, ticks, waitId>>
  /\ UNCHANGED ownVars

\* moveCell after its delete: insertCells(adjustedIndex, [cellData]).  The
\* copy is a new cell: it has the kind, text, language and metadata of the
\* old one, and no outputs or execution summary.
MoveCellInsert(applied) ==
  /\ call.pc = "moveDeleted"
  /\ nextKey' = nextKey + 1
  /\ call' = [call EXCEPT
                !.pc = "moveInserted",
                !.idx = AdjustedIndex(call.from, call.to),
                !.ops = Append(@, Op("insert", AdjustedIndex(call.from, call.to),
                                     applied))]
  /\ cells' = IF applied
              THEN InsertAt(cells, AdjustedIndex(call.from, call.to),
                            <<[NewCell(FreshKey, call.data.id, "absent")
                                 EXCEPT !.kind = call.data.kind]>>)
              ELSE cells
  /\ UNCHANGED <<openDocs, activeNb, access>>
  /\ UNCHANGED <<wStatus, interval, now, lastTick, ticks, waitId>>
  /\ UNCHANGED ownVars

\* notebook_move_cell after moveCell: "Moved cell from X to Y".
MoveCellReturn ==
  /\ call.pc = "moveInserted"
  /\ call' = [call EXCEPT !.pc = "idle", !.result = "ok"]
  /\ UNCHANGED <<openDocs, activeNb, access, nextKey>>
  /\ UNCHANGED waitVars
  /\ UNCHANGED ownVars

\* A move on its own: documents of one to MaxDoc cells, the notebook open
\* and active, every edit applied, nobody else editing.
DocOf(n) ==
  [i \in 1..n |-> NewCell(i, IF i = 1 THEN TrackedId ELSE NoId,
                          IF i % 2 = 1 THEN "true" ELSE "absent")]

InitMove ==
  /\ InitOwnership
  /\ foreignApp = FALSE
  /\ cells \in {DocOf(n) : n \in 1..MaxDoc}
  /\ wStatus = "none"
  /\ interval = FALSE
  /\ now = 0
  /\ lastTick = 0
  /\ ticks = 0
  /\ waitId = NoId
  /\ openDocs = {"nbA"}
  /\ activeNb = "nbA"
  /\ access = NoAccess
  /\ call = NoCall
  /\ nextKey = 0

MoveNext ==
  \/ \E from, to \in 0..MaxDoc : NotebookMoveCell(from, to, TRUE)
  \/ MoveCellInsert(TRUE)
  \/ MoveCellReturn
  \/ \E p \in Procs : FocusGain(p)
  \/ FocusLoss

SpecMove == InitMove /\ [][MoveNext]_vars

\* --------------------------------------------------- the other handlers
\* Mutant: an identifier generator that repeats itself.
GenerateCellIdConstant(n) == "id2"

\* generateCellId: the n-th identifier it returns; a random string, taken
\* to differ from every identifier in use.
IdPool == <<"id2", "id3", "id4", "id5">>
GenerateCellId(n) == IdPool[n]

\* notebook_insert_cell up to its first await: the guard, the new cell's
\* data with its tracking identifier, insertCells at the clamped index.
NotebookInsertCell(hasIndex, index, kind, exec, applied) ==
  /\ call.pc = "idle"
  /\ IF ~ToolGuard.allowed
     THEN /\ ReturnNow("insert", "error", ToolGuard.error)
          /\ UNCHANGED <<cells, nextKey>>
     ELSE /\ nextKey < MaxKeys
          /\ Len(cells) < MaxCells
          /\ nextKey' = nextKey + 1
          /\ LET at == IF hasIndex THEN Min(index, Len(cells)) ELSE Len(cells)
                 id == GenerateCellId(nextKey + 1)
             IN /\ call' = [NoCall EXCEPT
                              !.tool = "insert", !.pc = "inserted",
                              !.nb = ToolGuard.notebook, !.to = at,
                              !.exec = exec /\ kind = "code", !.id = id,
                              !.src = FreshKey,
                              !.data = [id |-> id, kind |-> kind],
                              !.ops = <<Op("insert", at, applied)>>]
                /\ cells' = IF applied
                            THEN InsertAt(cells, at,
                                   <<[NewCell(FreshKey, id, "absent")
                                        EXCEPT !.kind = kind]>>)
                            ELSE cells
  /\ UNCHANGED <<openDocs, activeNb, access>>
  /\ UNCHANGED <<wStatus, interval, now, lastTick, ticks, waitId>>
  /\ UNCHANGED ownVars

\* Mutant: the cell is taken to be where it was inserted.
InsertCellFoundAtInsertIndex ==
  /\ call.pc = "inserted"
  /\ IF FindCell(cells, call.id) = 0
     THEN call' = [call EXCEPT !.pc = "idle", !.result = "error",
                               !.error = "Failed to create cell"]
     ELSE IF call.exec
     THEN call' = [call EXCEPT
                     !.pc = "executing",
                     !.idx = call.to,
                     !.ops = Append(@, Op("execute", call.to, TRUE))]
     ELSE call' = [call EXCEPT !.pc = "idle", !.result = "ok",
                               !.idx = call.to]
  /\ UNCHANGED <<openDocs, activeNb, access, nextKey>>
  /\ UNCHANGED waitVars
  /\ UNCHANGED ownVars

\* notebook_insert_cell after insertCells: find the cell by its identifier,
\* reveal it, and execute it if asked to.
InsertCellFound ==
  /\ call.pc = "inserted"
  /\ IF FindCell(cells, call.id) = 0
     THEN call' = [call EXCEPT !.pc = "idle", !.result = "error",
                               !.error = "Failed to create cell"]
     ELSE IF call.exec
     THEN call' = [call EXCEPT
                     !.pc = "executing",
                     !.idx = FindCell(cells, call.id) - 1,
                     !.ops = Append(@, Op("execute", FindCell(cells, call.id) - 1,
                                          TRUE))]
     ELSE call' = [call EXCEPT !.pc = "idle", !.result = "ok",
                               !.idx = FindCell(cells, call.id) - 1]
  /\ UNCHANGED <<openDocs, activeNb, access, nextKey>>
  /\ UNCHANGED waitVars
  /\ UNCHANGED ownVars

\* ... after the execute command: waitForCellExecution(notebook, cellId).
InsertCellWait ==
  /\ call.pc = "executing"
  /\ ~interval
  /\ call' = [call EXCEPT !.pc = "waiting"]
  /\ waitId' = call.id
  /\ wStatus' = "pending"
  /\ interval' = TRUE
  /\ now' = 0
  /\ lastTick' = 0
  /\ ticks' = 0
  /\ UNCHANGED cells
  /\ UNCHANGED <<openDocs, activeNb, access, nextKey>>
  /\ UNCHANGED ownVars

\* The message of the error that a wait rejects with.
WaitError(status) ==
  IF status = "notFound" THEN "Cell not found"
  ELSE IF status = "timedOut" THEN "Cell execution timed out"
  ELSE ""

\* ... after the wait has settled: the result with the execution in it,
\* { success, executionOrder, outputs } or, from the catch block,
\* { success: false, error }.
\* Mutant: the catch block reports a failed execution without an error.
InsertCellReturnNoError ==
  /\ call.pc = "waiting"
  /\ wStatus \in {"resolved", "notFound", "timedOut"}
  /\ call' = [call EXCEPT
                !.pc = "idle", !.result = "ok",
                !.success = IF wStatus = "resolved"
                            THEN cells[FindCell(cells, call.id)].summary
                            ELSE "false"]
  /\ UNCHANGED <<openDocs, activeNb, access, nextKey>>
  /\ UNCHANGED waitVars
  /\ UNCHANGED ownVars

InsertCellReturn ==
  /\ call.pc = "waiting"
  /\ wStatus \in {"resolved", "notFound", "timedOut"}
  /\ call' = [call EXCEPT
                !.pc = "idle", !.result = "ok",
                !.success = IF wStatus = "resolved"
                            THEN cells[FindCell(cells, call.id)].summary
                            ELSE "false",
                !.error = WaitError(wStatus)]
  /\ UNCHANGED <<openDocs, activeNb, access, nextKey>>
  /\ UNCHANGED waitVars
  /\ UNCHANGED ownVars

\* Mutant: the range check lets the index just past the last cell through.
NotebookEditCellOffByOne(index, applied) ==
  /\ call.pc = "idle"
  /\ IF ~ToolGuard.allowed
     THEN ReturnAt("edit", "error", ToolGuard.error, index, index)
     ELSE IF index > Len(cells)
     THEN ReturnAt("edit", "error", "Cell index out of range", index, index)
     ELSE call' = [NoCall EXCEPT
                     !.tool = "edit", !.pc = "awaited",
                     !.nb = ToolGuard.notebook, !.from = index,
                     !.ops = <<Op("edit", index, applied)>>]
  /\ UNCHANGED <<openDocs, activeNb, access, nextKey>>
  /\ UNCHANGED waitVars
  /\ UNCHANGED ownVars

\* notebook_edit_cell up to its await: the guard, the range check,
\* editCellContent.
NotebookEditCell(index, applied) ==
  /\ call.pc = "idle"
  /\ IF ~ToolGuard.allowed
     THEN ReturnAt("edit", "error", ToolGuard.error, index, index)
     ELSE IF index >= Len(cells)
     THEN ReturnAt("edit", "error", "Cell index out of range", index, index)
     ELSE call' = [NoCall EXCEPT
                     !.tool = "edit", !.pc = "awaited",
                     !.nb = ToolGuard.notebook, !.from = index,
                     !.ops = <<Op("edit", index, applied)>>]
  /\ UNCHANGED <<openDocs, activeNb, access, nextKey>>
  /\ UNCHANGED waitVars
  /\ UNCHANGED ownVars

\* Mutant: the delete tool does not ask the guard.
NotebookDeleteCellUnguarded(index, applied) ==
  /\ call.pc = "idle"
  /\ IF index >= Len(cells)
     THEN /\ ReturnAt("delete", "error", "Cell index out of range", index, index)
          /\ UNCHANGED cells
     ELSE /\ call' = [NoCall EXCEPT
                        !.tool = "delete", !.pc = "awaited",
                        !.nb = activeNb, !.from = index,
                        !.src = cells[index + 1].key,
                        !.ops = <<Op("delete", index, applied)>>]
          /\ cells' = IF applied THEN DeleteAt(cells, index, 1) ELSE cells
  /\ UNCHANGED <<openDocs, activeNb, access, nextKey>>
  /\ UNCHANGED <<wStatus, interval, now, lastTick, ticks, waitId>>
  /\ UNCHANGED ownVars

\* notebook_delete_cell up to its await: guard, range check, deleteCells.
NotebookDeleteCell(index, applied) ==
  /\ call.pc = "idle"
  /\ IF ~ToolGuard.allowed
     THEN /\ ReturnAt("delete", "error", ToolGuard.error, index, index)
          /\ UNCHANGED cells
     ELSE IF index >= Len(cells)
     THEN /\ ReturnAt("delete", "error", "Cell index out of range", index, index)
          /\ UNCHANGED cells
     ELSE /\ call' = [NoCall EXCEPT
                        !.tool = "delete", !.pc = "awaited",
                        !.nb = ToolGuard.notebook, !.from = index,
                        !.src = cells[index + 1].key,
                        !.ops = <<Op("delete", index, applied)>>]
          /\ cells' = IF applied THEN DeleteAt(cells, index, 1) ELSE cells
  /\ UNCHANGED <<openDocs, activeNb, access, nextKey>>
  /\ UNCHANGED <<wStatus, interval, now, lastTick, ticks, waitId>>
  /\ UNCHANGED ownVars

\* notebook_clear_outputs up to its await: guard, range check, selection,
\* the host's clear-outputs command.
NotebookClearOutputs(index) ==
  /\ call.pc = "idle"
  /\ IF ~ToolGuard.allowed
     THEN ReturnAt("clearOutputs", "error", ToolGuard.error, index, index)
     ELSE IF index >= Len(cells)
     THEN ReturnAt("clearOutputs", "error", "Cell index out of range", index, index)
     ELSE call' = [NoCall EXCEPT
                     !.tool = "clearOutputs", !.pc = "awaited",
                     !.nb = ToolGuard.notebook, !.from = index,
                     !.ops = <<Op("clearOutputs", index, TRUE)>>]
  /\ UNCHANGED <<openDocs, activeNb, access, nextKey>>
  /\ UNCHANGED waitVars
  /\ UNCHANGED ownVars

\* notebook_clear_all_outputs up to its await: guard, the host command.
NotebookClearAllOutputs ==
  /\ call.pc = "idle"
  /\ IF ~ToolGuard.allowed
     THEN ReturnNow("clearAll", "error", ToolGuard.error)
     ELSE call' = [NoCall EXCEPT
                     !.tool = "clearAll", !.pc = "awaited",
                     !.nb = ToolGuard.notebook,
                     !.ops = <<Op("clearAllOutputs", 0, TRUE)>>]
  /\ UNCHANGED <<openDocs, activeNb, access, nextKey>>
  /\ UNCHANGED waitVars
  /\ UNCHANGED ownVars

\* The n cells of a bulk add: no metadata, new cell objects.
BulkCells(n) == [i \in 1..n |-> NewCell(FreshKey + i - 1, NoId, "absent")]

\* notebook_bulk_add_cells up to its await: guard, clamped index, one
\* insertCells of all the cells.
NotebookBulkAddCells(hasIndex, index, n, applied) ==
  /\ call.pc = "idle"
  /\ IF ~ToolGuard.allowed
     THEN /\ ReturnNow("bulkAdd", "error", ToolGuard.error)
          /\ UNCHANGED <<cells, nextKey>>
     ELSE /\ n >= 1
          /\ nextKey + n <= MaxKeys
          /\ Len(cells) + n <= MaxCells
          /\ nextKey' = nextKey + n
          /\ LET at == IF hasIndex THEN Min(index, Len(cells)) ELSE Len(cells)
             IN /\ call' = [NoCall EXCEPT
                              !.tool = "bulkAdd", !.pc = "awaited",
                              !.nb = ToolGuard.notebook, !.to = at, !.from = n,
                              !.ops = <<Op("insert", at, applied)>>]
                /\ cells' = IF applied THEN InsertAt(cells, at, BulkCells(n))
                            ELSE cells
  /\ UNCHANGED <<openDocs, activeNb, access>>
  /\ UNCHANGED <<wStatus, interval, now, lastTick, ticks, waitId>>
  /\ UNCHANGED ownVars

\* edit, delete, clear outputs, clear all and bulk add after their await:
\* the success result.
ToolReturn ==
  /\ call.pc = "awaited"
  /\ call' = [call EXCEPT !.pc = "idle", !.result = "ok"]
  /\ UNCHANGED <<openDocs, activeNb, access, nextKey>>
  /\ UNCHANGED waitVars
  /\ UNCHANGED ownVars

\* notebook_run_cell up to its await: guard, range check, code cells only,
\* reveal, the execute command for the given index.
NotebookRunCell(index) ==
  /\ call.pc = "idle"
  /\ IF ~ToolGuard.allowed
     THEN ReturnAt("run", "error", ToolGuard.error, index, index)
     ELSE IF index >= Len(cells)
     THEN ReturnAt("run", "error", "Cell index out of range", index, index)
     ELSE IF cells[index + 1].kind # "code"
     THEN ReturnAt("run", "error", "Only code cells can be executed", index, index)
     ELSE call' = [NoCall EXCEPT
                     !.tool = "run", !.pc = "runStarted",
                     !.nb = ToolGuard.notebook, !.from = index,
                     !.src = cells[index + 1].key,
                     !.ops = <<Op("execute", index, TRUE)>>]
  /\ UNCHANGED <<openDocs, activeNb, access, nextKey>>
  /\ UNCHANGED waitVars
  /\ UNCHANGED ownVars

\* notebook.cellAt(index) of the host: the index is adjusted to the notebook,
\* so an index past the end gives the last cell; 0 (no cell, and the read of
\* the cell fails) when the notebook is empty.
CellAtIndex(cs, index) == Min(index, Len(cs) - 1) + 1

\* Mutant: the loop follows the cell that was executed.
RunRoundByIdentity(t) ==
  IF \A i \in 1..Len(cells) : cells[i].key # call.src
  THEN [call EXCEPT !.pc = "idle", !.result = "fault",
                    !.error = "cellAt: no cell"]
  ELSE LET cell == cells[CHOOSE i \in 1..Len(cells) : cells[i].key = call.src]
       IN IF SuccessIsBoolean(cell.summary)
          THEN [call EXCEPT !.pc = "idle", !.result = "ok",
                            !.success = cell.summary, !.idx = cell.key]
          ELSE [call EXCEPT !.pc = "runPolling", !.idx = cell.key]

\* One round of the poll loop of notebook_run_cell: cellAt(index) again,
\* done when its success is a boolean, else sleep; the read throws when the
\* notebook has no cell left, and nothing in the handler catches it.
RunRound(t) ==
  IF Len(cells) = 0
  THEN [call EXCEPT !.pc = "idle", !.result = "fault",
                    !.error = "cellAt: no cell"]
  ELSE IF SuccessIsBoolean(cells[CellAtIndex(cells, call.from)].summary)
  THEN [call EXCEPT !.pc = "idle", !.result = "ok",
                    !.success = cells[CellAtIndex(cells, call.from)].summary,
                    !.idx = cells[CellAtIndex(cells, call.from)].key]
  ELSE [call EXCEPT !.pc = "runPolling",
                    !.idx = cells[CellAtIndex(cells, call.from)].key]

\* ... after the execute command: the clock of the loop starts, and its
\* first round runs at once.
RunCellBegin ==
  /\ call.pc = "runStarted"
  /\ ~interval
  /\ now' = 0
  /\ lastTick' = 0
  /\ call' = RunRound(0)
  /\ UNCHANGED <<cells, wStatus, interval, ticks, waitId>>
  /\ UNCHANGED <<openDocs, activeNb, access, nextKey>>
  /\ UNCHANGED ownVars

\* ... after a sleep of 100 ms: another round while the time is not up,
\* else the timeout error.
RunCellPoll ==
  /\ call.pc = "runPolling"
  /\ now - lastTick >= PollInterval
  /\ lastTick' = now
  /\ call' = IF now < WaitTimeout
             THEN RunRound(now)
             ELSE [call EXCEPT !.pc = "idle", !.result = "error",
                               !.error = "Cell execution timed out"]
  /\ UNCHANGED <<cells, wStatus, interval, now, ticks, waitId>>
  /\ UNCHANGED <<openDocs, activeNb, access, nextKey>>
  /\ UNCHANGED ownVars

\* The tools at work on the notebook of this window, next to the user, the
\* kernel and a wait that is under way.
InitToolCalls ==
  /\ InitOwnership
  /\ foreignApp = FALSE
  /\ cells \in {<<>>, <<NewCell(1, NoId, "true")>>}
  /\ wStatus = "none"
  /\ interval = FALSE
  /\ now = 0
  /\ lastTick = 0
  /\ ticks = 0
  /\ waitId = NoId
  /\ openDocs = {"nbA"}
  /\ activeNb = "nbA"
  /\ access = NoAccess
  /\ call = NoCall
  /\ nextKey = 0

Kinds == {"code", "markup"}

\* Time passes while a wait or a poll loop sleeps; its timer fires when due.
Sleep ==
  /\ interval \/ call.pc = "runPolling"
  /\ now - lastTick < PollInterval
  /\ Advance

\* The wait of the call has settled; the handler goes on before any other
\* task runs.
Settled == call.pc \in {"waiting", "codeWaiting"} /\ ~interval

\* The places of a call at which the kernel may be at work for it.
ExecPcs ==
  {"executing", "waiting", "runStarted", "runPolling", "codeExecuting",
   "codeWaiting"}

\* The kernel works on the cell that the execute command of the call named.
KernelRuns(i) ==
  /\ call.pc \in ExecPcs
  /\ ~Settled
  /\ i \in 1..Len(cells)
  /\ cells[i].key = call.src
  /\ KernelStart(i, "undef")

KernelDone(i, ok) ==
  /\ call.pc \in ExecPcs
  /\ ~Settled
  /\ i \in 1..Len(cells)
  /\ cells[i].key = call.src
  /\ cells[i].summary \in {"undef", "null"}
  /\ cells' = [cells EXCEPT ![i].summary = IF ok THEN "true" ELSE "false"]
  /\ call' = [call EXCEPT !.done = TRUE]
  /\ UNCHANGED <<wStatus, interval, now, lastTick, ticks, waitId>>
  /\ UNCHANGED <<openDocs, activeNb, access, nextKey>>
  /\ UNCHANGED ownVars

\* The user edits the document while a call is in flight.
ConcurrentDelete(i) ==
  /\ call.pc # "idle"
  /\ ~Settled
  /\ UserDelete(i)

ConcurrentInsert(i) ==
  /\ call.pc # "idle"
  /\ ~Settled
  /\ UserInsert(i)

ToolsNext ==
  \/ \E from, to \in 0..MaxIndex, applied \in BOOLEAN :
       NotebookMoveCell(from, to, applied)
  \/ \E applied \in BOOLEAN : MoveCellInsert(applied)
  \/ MoveCellReturn
  \/ \E hasIndex \in BOOLEAN, index \in 0..MaxIndex, kind \in Kinds,
        applied \in BOOLEAN :
       NotebookInsertCell(hasIndex, index, kind, FALSE, applied)
  \/ InsertCellFound
  \/ \E index \in 0..MaxIndex, applied \in BOOLEAN : NotebookEditCell(index, applied)
  \/ \E index \in 0..MaxIndex, applied \in BOOLEAN : NotebookDeleteCell(index, applied)
  \/ \E index \in 0..MaxIndex : NotebookClearOutputs(index)
  \/ NotebookClearAllOutputs
  \/ \E hasIndex \in BOOLEAN, index \in 0..MaxIndex, n \in 1..MaxKeys,
        applied \in BOOLEAN :
       NotebookBulkAddCells(hasIndex, index, n, applied)
  \/ ToolReturn
  \/ \E index \in 0..MaxIndex : NotebookRunCell(index)
  \/ RunCellBegin
  \/ RunCellPoll
  \/ Sleep
  \/ \E u \in {"nbA", NoUri} : SwitchEditor(u)
  \/ FocusGain(ThisWindow)
  \/ FocusLoss

SpecTools == InitToolCalls /\ [][ToolsNext]_vars

\* The insert tool with its execution, next to the kernel and the user.
ExecNext ==
  \/ \E hasIndex \in BOOLEAN, kind \in Kinds, exec \in BOOLEAN,
        applied \in BOOLEAN :
       NotebookInsertCell(hasIndex, 0, kind, exec, applied)
  \/ InsertCellFound
  \/ InsertCellWait
  \/ InsertCellReturn
  \/ WaitTick
  \/ Sleep
  \/ \E i \in 1..MaxCells : KernelRuns(i)
  \/ \E i \in 1..MaxCells, ok \in BOOLEAN : KernelDone(i, ok)
  \/ \E i \in 1..MaxCells : ConcurrentDelete(i)
  \/ \E i \in 1..MaxCells : ConcurrentInsert(i)
  \/ FocusGain(ThisWindow)
  \/ FocusLoss

SpecExec == InitToolCalls /\ [][ExecNext]_vars

\* The run tool on a notebook of code cells, one of them run before, next
\* to the kernel and the user.
InitRun ==
  /\ InitOwnership
  /\ foreignApp = FALSE
  /\ cells \in {<<NewCell(1, NoId, "absent")>>,
                <<NewCell(1, NoId, "true"), NewCell(2, NoId, "absent")>>,
                <<NewCell(1, NoId, "absent"), NewCell(2, NoId, "false")>>}
  /\ wStatus = "none"
  /\ interval = FALSE
  /\ now = 0
  /\ lastTick = 0
  /\ ticks = 0
  /\ waitId = NoId
  /\ openDocs = {"nbA"}
  /\ activeNb = "nbA"
  /\ access = NoAccess
  /\ call = NoCall
  /\ nextKey = 0

RunNext ==
  \/ \E index \in 0..MaxIndex : NotebookRunCell(index)
  \/ RunCellBegin
  \/ RunCellPoll
  \/ Sleep
  \/ \E i \in 1..MaxCells : KernelRuns(i)
  \/ \E i \in 1..MaxCells, ok \in BOOLEAN : KernelDone(i, ok)
  \/ \E i \in 1..MaxCells : ConcurrentDelete(i)
  \/ \E i \in 1..MaxCells : ConcurrentInsert(i)
  \/ FocusGain(ThisWindow)
  \/ FocusLoss

SpecRun == InitRun /\ [][RunNext]_vars

\* insertCells(uri, index, [cell]) and then deleteCells(uri, index, 1), with
\* nothing in between: each returns when its applyEdit has, applied or not.
InsertThenDelete(index, insApplied, delApplied) ==
  /\ call.pc = "idle"
  /\ nextKey < MaxKeys
  /\ nextKey' = nextKey + 1
  /\ call' = [NoCall EXCEPT
                !.tool = "roundTrip", !.result = "ok", !.from = index,
                !.to = Len(cells),
                !.ops = <<Op("insert", index, insApplied),
                          Op("delete", index, delApplied)>>]
  /\ LET new == <<NewCell(FreshKey, NoId, "absent")>>
         mid == IF insApplied THEN InsertAt(cells, index, new) ELSE cells
     IN cells' = IF delApplied THEN DeleteAt(mid, index, 1) ELSE mid
  /\ UNCHANGED <<openDocs, activeNb, access>>
  /\ UNCHANGED <<wStatus, interval, now, lastTick, ticks, waitId>>
  /\ UNCHANGED ownVars

RoundTripNext ==
  \/ \E index \in 0..MaxDoc, insApplied, delApplied \in BOOLEAN :
       InsertThenDelete(index, insApplied, delApplied)
  \/ \E i \in 1..MaxDoc : UserDelete(i)
  \/ \E i \in 1..MaxCells : UserInsert(i)

SpecRoundTrip == InitMove /\ [][RoundTripNext]_vars

\* The tools that change the structure of the document, next to the user.
IdentityNext ==
  \/ \E hasIndex \in BOOLEAN, index \in 0..MaxIndex, applied \in BOOLEAN :
       NotebookInsertCell(hasIndex, index, "code", FALSE, applied)
  \/ InsertCellFound
  \/ \E from, to \in 0..MaxIndex, applied \in BOOLEAN :
       NotebookMoveCell(from, to, applied)
  \/ \E applied \in BOOLEAN : MoveCellInsert(applied)
  \/ MoveCellReturn
  \/ \E index \in 0..MaxIndex, applied \in BOOLEAN : NotebookDeleteCell(index, applied)
  \/ \E hasIndex \in BOOLEAN, index \in 0..MaxIndex, applied \in BOOLEAN :
       NotebookBulkAddCells(hasIndex, index, 1, applied)
  \/ ToolReturn
  \/ \E i \in 1..MaxCells : UserDelete(i)
  \/ \E i \in 1..MaxCells : UserInsert(i)
  \/ FocusGain(ThisWindow)
  \/ FocusLoss

SpecIdentity == InitToolCalls /\ [][IdentityNext]_vars

\* A move next to a wait for the cell with the tracked identifier, and to
\* the user.
InitMoveWait ==
  /\ InitOwnership
  /\ foreignApp = FALSE
  /\ cells \in {<<NewCell(1, TrackedId, "absent"), NewCell(2, NoId, "true")>>,
                <<NewCell(2, NoId, "true"), NewCell(1, TrackedId, "absent"),
                  NewCell(3, NoId, "absent")>>}
  /\ wStatus = "pending"
  /\ interval = TRUE
  /\ now = 0
  /\ lastTick = 0
  /\ ticks = 0
  /\ waitId = TrackedId
  /\ openDocs = {"nbA"}
  /\ activeNb = "nbA"
  /\ access = NoAccess
  /\ call = NoCall
  /\ nextKey = 0

MoveWaitNext ==
  \/ \E from, to \in 0..MaxIndex, applied \in BOOLEAN :
       NotebookMoveCell(from, to, applied)
  \/ \E applied \in BOOLEAN : MoveCellInsert(applied)
  \/ MoveCellReturn
  \/ WaitTick
  \/ Sleep
  \/ \E i \in 1..MaxCells : ConcurrentDelete(i)
  \/ FocusGain(ThisWindow)
  \/ FocusLoss

SpecMoveWait == InitMoveWait /\ [][MoveWaitNext]_vars

\* ------------------------------------------------ notebook_execute_code
\* notebook_execute_code up to its first await: the active editor (no guard
\* and no test of focus), a code cell with a tracking identifier, insertCells
\* at the clamped index.
NotebookExecuteCode(hasIndex, index, silent, applied) ==
  /\ call.pc = "idle"
  /\ IF activeNb = NoUri
     THEN /\ ReturnNow("executeCode", "error", ErrNoActive)
          /\ UNCHANGED <<cells, nextKey>>
     ELSE /\ nextKey < MaxKeys
          /\ Len(cells) < MaxCells
          /\ nextKey' = nextKey + 1
          /\ LET at == IF hasIndex THEN Min(index, Len(cells)) ELSE Len(cells)
                 id == GenerateCellId(nextKey + 1)
             IN /\ call' = [NoCall EXCEPT
                              !.tool = "executeCode", !.pc = "codeInserted",
                              !.nb = activeNb, !.to = at, !.exec = TRUE,
                              !.silent = silent, !.id = id, !.src = FreshKey,
                              !.data = [id |-> id, kind |-> "code"],
                              !.ops = <<Op("insert", at, applied)>>]
                /\ cells' = IF applied
                            THEN InsertAt(cells, at,
                                   <<NewCell(FreshKey, id, "absent")>>)
                            ELSE cells
  /\ UNCHANGED <<openDocs, activeNb, access>>
  /\ UNCHANGED <<wStatus, interval, now, lastTick, ticks, waitId>>
  /\ UNCHANGED ownVars

\* ... after insertCells: find the cell by its identifier, take its index,
\* reveal it, execute it.
ExecuteCodeFound ==
  /\ call.pc = "codeInserted"
  /\ IF FindCell(cells, call.id) = 0
     THEN call' = [call EXCEPT !.pc = "idle", !.result = "error",
                               !.error = "Failed to create cell"]
     ELSE call' = [call EXCEPT
                     !.pc = "codeExecuting",
                     !.idx = FindCell(cells, call.id) - 1,
                     !.ops = Append(@, Op("execute", FindCell(cells, call.id) - 1,
                                          TRUE))]
  /\ UNCHANGED <<openDocs, activeNb, access, nextKey>>
  /\ UNCHANGED waitVars
  /\ UNCHANGED ownVars

\* ... after the execute command: waitForCellExecution(notebook, cellId).
ExecuteCodeWait ==
  /\ call.pc = "codeExecuting"
  /\ ~interval
  /\ call' = [call EXCEPT !.pc = "codeWaiting"]
  /\ waitId' = call.id
  /\ wStatus' = "pending"
  /\ interval' = TRUE
  /\ now' = 0
  /\ lastTick' = 0
  /\ ticks' = 0
  /\ UNCHANGED cells
  /\ UNCHANGED <<openDocs, activeNb, access, nextKey>>
  /\ UNCHANGED ownVars

\* ... after the wait: an error result if it was rejected; else, if silent,
\* deleteCells(notebook.uri, cellIndex, 1) with the index taken before the
\* execution; else the result.
ExecuteCodeSettled(applied) ==
  /\ call.pc = "codeWaiting"
  /\ wStatus \in {"resolved", "notFound", "timedOut"}
  /\ IF wStatus # "resolved"
     THEN /\ call' = [call EXCEPT !.pc = "idle", !.result = "error",
                                  !.error = WaitError(wStatus)]
          /\ UNCHANGED cells
     ELSE IF call.silent
     THEN /\ call' = [call EXCEPT
                        !.pc = "codeDeleted",
                        !.success = cells[FindCell(cells, call.id)].summary,
                        !.ops = Append(@, Op("delete", call.idx, applied))]
          /\ cells' = IF applied THEN DeleteAt(cells, call.idx, 1) ELSE cells
     ELSE /\ call' = [call EXCEPT
                        !.pc = "idle", !.result = "ok",
                        !.success = cells[FindCell(cells, call.id)].summary]
          /\ UNCHANGED cells
  /\ UNCHANGED <<openDocs, activeNb, access, nextKey>>
  /\ UNCHANGED <<wStatus, interval, now, lastTick, ticks, waitId>>
  /\ UNCHANGED ownVars

\* ... after the silent delete: the result, without a cell index.
ExecuteCodeReturn ==
  /\ call.pc = "codeDeleted"
  /\ call' = [call EXCEPT !.pc = "idle", !.result = "ok"]
  /\ UNCHANGED <<openDocs, activeNb, access, nextKey>>
  /\ UNCHANGED waitVars
  /\ UNCHANGED ownVars

ExecuteCodeNext ==
  \/ \E hasIndex \in BOOLEAN, silent \in BOOLEAN, applied \in BOOLEAN :
       NotebookExecuteCode(hasIndex, 0, silent, applied)
  \/ ExecuteCodeFound
  \/ ExecuteCodeWait
  \/ \E applied \in BOOLEAN : ExecuteCodeSettled(applied)
  \/ ExecuteCodeReturn
  \/ WaitTick
  \/ Sleep
  \/ \E i \in 1..MaxCells : KernelRuns(i)
  \/ \E i \in 1..MaxCells, ok \in BOOLEAN : KernelDone(i, ok)
  \/ \E i \in 1..MaxCells : ConcurrentDelete(i)
  \/ \E i \in 1..MaxCells : ConcurrentInsert(i)
  \/ \E u \in {"nbA", NoUri} : SwitchEditor(u)

SpecExecuteCode == InitToolCalls /\ [][ExecuteCodeNext]_vars

\* ------------------------------------------------------- input schemas
\* A JSON value of a tool input: a string, a number n/d, or undefined for a
\* field that is not there.
MaxNum == 3
Undef == [t |-> "undefined", n |-> 0, d |-> 1, s |-> ""]
Num(n, d) == [t |-> "number", n |-> n, d |-> d, s |-> ""]
Str(s) == [t |-> "string", n |-> 0, d |-> 1, s |-> s]

Failed == [ok |-> FALSE, value |-> Undef]
Parsed(v) == [ok |-> TRUE, value |-> v]

\* ResponseFormatSchema: z.nativeEnum(ResponseFormat).default(MARKDOWN).
ParseResponseFormat(v) ==
  IF v = Undef THEN Parsed(Str("markdown"))
  ELSE IF v \in {Str("markdown"), Str("json")} THEN Parsed(v)
  ELSE Failed

\* CellIndexSchema: z.number().int().min(0).
ParseCellIndex(v) ==
  IF v.t = "number" /\ v.n % v.d = 0 /\ v.n >= 0
  THEN Parsed(Num(v.n \div v.d, 1))
  ELSE Failed

\* z.number().int().min(0).optional(), the index of the insert tools.
ParseOptionalIndex(v) == IF v = Undef THEN Parsed(Undef) ELSE ParseCellIndex(v)

\* The schemas by their fields: ListCellsInputSchema has response_format
\* only, the schemas of edit, delete, run and clear outputs an index too,
\* the schemas of insert and bulk add an optional index.
Schemas == {"list", "index", "optionalIndex"}

\* Mutant: z.object(...) without .strict() leaves unknown keys out.
UnknownKeysStripped(schema, input) == FALSE

\* .strict(): the keys of the input that are not keys of the schema.
UnknownKeys(schema, input) ==
  \/ input.unknown # Undef
  \/ schema = "list" /\ input.index # Undef

\* Schema.parse(params): the parsed object, or the ZodError.
ParseInput(schema, input) ==
  LET index == IF schema = "index" THEN ParseCellIndex(input.index)
               ELSE IF schema = "optionalIndex"
               THEN ParseOptionalIndex(input.index)
               ELSE Parsed(Undef)
      format == ParseResponseFormat(input.response_format)
  IN IF UnknownKeys(schema, input) \/ ~index.ok \/ ~format.ok
     THEN [ok |-> FALSE, index |-> Undef, response_format |-> Undef]
     ELSE [ok |-> TRUE, index |-> index.value,
           response_format |-> format.value]

IndexValues ==
  {Undef, Str("1")} \cup {Num(n, d) : n \in (0 - MaxNum)..MaxNum, d \in 1..2}
FormatValues == {Undef, Str("markdown"), Str("json"), Str("xml"), Num(1, 1)}
Inputs ==
  [index : IndexValues, response_format : FormatValues,
   unknown : {Undef, Str("value")}]

\* A handler parses the arguments it was called with.
ParseToolInput(schema, input) ==
  /\ call' = [NoCall EXCEPT
                !.tool = "parse", !.nb = schema, !.data = input,
                !.result = IF ParseInput(schema, input).ok THEN "ok" ELSE "error",
                !.ops = <<ParseInput(schema, input)>>]
  /\ UNCHANGED <<openDocs, activeNb, access, nextKey>>
  /\ UNCHANGED waitVars
  /\ UNCHANGED ownVars

SchemaNext ==
  \/ \E schema \in Schemas, input \in Inputs : ParseToolInput(schema, input)

SpecSchema == Init /\ [][SchemaNext]_vars

\* ================================================================ claims
Takeovers(p) == {k \in Slots : task[p][k].kind = "takeover"}

\* C1: at most one process's token says owner of a given port.
C1_SingleOwner ==
  \A p, r \in Procs :
    (p # r /\ IsOwner(p) /\ IsOwner(r)) => token[p].port # token[r].port

\* C4: no requester receives a successful /release response while the
\* process that answered it still holds the listening socket.
C4_CloseBeforeResponse ==
  [][\A p \in Procs, k \in Slots :
       (/\ task[p][k].pc = "relResp"
        /\ task'[p][k].pc # "relResp"
        /\ task[p][k].resp
        /\ task[p][k].by # 0)
       => <<task[p][k].by, task[p][k].port>> \notin listeners]_vars

\* C5: no port is ever held by two listeners (ours or foreign), and a
\* process reports itself owner of a port only in a step in which it holds
\* the listening socket of that port.
C5_NoDoubleBind ==
  /\ [](\A q \in Ports :
          /\ Cardinality(Holder(q)) <= 1
          /\ (foreignApp /\ q = DEFAULT_PORT) => Holder(q) = {})
  /\ [][\A p \in Procs :
          (token'[p] # token[p] /\ token'[p].defined /\ ~token'[p].isExistingServer)
          => <<p, token'[p].port>> \in listeners']_vars

\* C5 witness: a bind was refused while another process holds the port.
C5_Witness ==
  \E p \in Procs, k \in Slots :
    /\ task[p][k].pc = "errProbeReq"
    /\ \E r \in Procs \ {p} : <<r, task[p][k].port>> \in listeners

\* C7: when the requester becomes owner after an accepted release, the
\* former owner's token is already Deferred and it holds no listener.
C7_StrictTransfer ==
  [][\A p \in Procs, k \in Slots :
       (/\ task[p][k].pc = "bindPending"
        /\ task[p][k].released
        /\ task[p][k].by \notin {0, p}
        /\ task'[p][k].pc = "idle"
        /\ token'[p] = Result(task[p][k].port, FALSE))
       => /\ token'[task[p][k].by] = Result(DEFAULT_PORT, TRUE)
          /\ \A q \in Ports : <<task[p][k].by, q>> \notin listeners']_vars

\* C8: takeOverServer sends its release request only while its window has
\* focus and the process is not the owner (Deferred).
C8_OnlyFocusedTakesOver ==
  [][\A p \in Procs :
       (\E k \in Slots : /\ task[p][k].pc = "idle"
                         /\ task'[p][k].kind = "takeover")
       => (focusWin = p /\ ~IsOwner(p))]_vars

\* C9 (as claimed): focus gains are coalesced and no two takeover attempts
\* of one process overlap.
C9_NoOverlap ==
  \A p \in Procs : timers[p] <= 1 /\ Cardinality(Takeovers(p)) <= 1

\* C9 (amended): at most one debounce timer is pending per process, and a
\* takeover attempt starts only by consuming that timer; attempts started
\* by separate timers may overlap.
C9_OnePerTimer ==
  /\ [](\A p \in Procs : timers[p] <= 1)
  /\ [][\A p \in Procs :
          Takeovers(p)' # Takeovers(p) =>
            /\ Cardinality(Takeovers(p)') <= Cardinality(Takeovers(p)) + 1
            /\ (Cardinality(Takeovers(p)') > Cardinality(Takeovers(p))
                => timers[p] = 1 /\ timers'[p] = 0)]_vars

\* C9 witness: two focus gains of one window left two attempts in flight.
C9_Witness ==
  \E p \in Procs : Cardinality(Takeovers(p)) = 2 /\ timers[p] = 0

\* C10: a takeover whose release request was never handled, while another
\* process keeps the port, ends Deferred on the configured port with no
\* listener of its own.
C10_SoftFail ==
  [][\A p \in Procs, k \in Slots :
       (/\ task[p][k].kind = "takeover"
        /\ ~task[p][k].released
        /\ task[p][k].by = 0
        /\ task'[p][k].pc = "idle"
        /\ token'[p] # token[p]
        /\ Holder(DEFAULT_PORT)' \ {p} # {})
       => /\ token'[p] = Result(DEFAULT_PORT, TRUE)
          /\ \A q \in Ports : <<p, q>> \notin listeners']_vars

\* C11: startMCPServer resolves Deferred on a port only after a /health
\* probe of that port was answered by a notebook-mcp-server; a Deferred
\* process holds no listening socket; and it binds again only within a
\* takeover or a restart.
C11_DeferredOnlyOnProbe ==
  /\ [](\A p \in Procs : IsDeferred(p) => \A q \in Ports : <<p, q>> \notin listeners)
  /\ [][\A p \in Procs, k \in Slots :
          /\ (/\ task[p][k].pc \in {"probeReq", "errProbeReq"}
              /\ task'[p][k].pc \in {"probeResp", "errProbeResp"}
              /\ task'[p][k].resp)
             => Holder(task[p][k].port) # {}
          /\ (/\ task[p][k].pc # "idle"
              /\ task'[p][k].pc = "idle"
              /\ token'[p] # token[p]
              /\ token'[p].isExistingServer)
             => /\ task[p][k].pc \in {"probeResp", "errProbeResp"}
                /\ task[p][k].resp
                /\ token'[p] = Result(task[p][k].port, TRUE)
          /\ (/\ IsDeferred(p)
              /\ task[p][k].pc = "bindPending"
              /\ task'[p][k].pc # "bindPending")
             => task[p][k].kind \in {"takeover", "restart"}]_vars


StartRank == 5 * (MaxPort - DEFAULT_PORT) + 5
Rank(t) ==
  CASE t.pc = "idle" -> 0
    [] t.pc = "errProbeResp" -> 5 * (MaxPort - t.port) + 1
    [] t.pc = "errProbeReq" -> 5 * (MaxPort - t.port) + 2
    [] t.pc = "bindPending" -> 5 * (MaxPort - t.port) + 3
    [] t.pc = "probeResp" -> 5 * (MaxPort - t.port) + 4
    [] t.pc = "probeReq" -> 5 * (MaxPort - t.port) + 5
    [] t.pc = "pollResp" -> StartRank + 2 * (MaxPolls - t.polls) + 1
    [] t.pc = "pollReq" -> StartRank + 2 * (MaxPolls - t.polls) + 2
    [] t.pc = "relResp" -> StartRank + 2 * MaxPolls + 3
    [] t.pc = "relReq" -> StartRank + 2 * MaxPolls + 4
    [] t.pc = "stopWait" -> StartRank + 2 * MaxPolls + 5

\* C13: every start, takeover or restart in flight comes to an end: it can
\* always take its next step, and each step brings it nearer its end; its
\* poll never runs past its budget, exhausting the budget changes nothing
\* but the call's own position, and the call ends with the token Owner or
\* Deferred, or (on an error) as it was.
C13_TakeoverTerminates ==
  /\ [](\A p \in Procs, k \in Slots :
          /\ task[p][k].polls <= MaxPolls
          /\ task[p][k].pc # "idle"
             => \/ inRelease[p] /\ ENABLED ReleaseClose(p)
                \/ ENABLED TaskStep(p, k))
  /\ [][\A p \in Procs, k \in Slots :
          /\ (task[p][k].pc # "idle" /\ task'[p][k] # task[p][k])
             => Rank(task'[p][k]) < Rank(task[p][k])
          /\ (task[p][k].pc = "pollResp" /\ task'[p][k].pc # "pollResp")
             => /\ UNCHANGED <<listeners, token, httpServer, relCb>>
                /\ (task[p][k].resp /\ task[p][k].polls >= MaxPolls)
                   => task'[p][k].pc = "probeReq"
          /\ (task[p][k].pc # "idle" /\ task'[p][k].pc = "idle")
             => \/ token'[p] = token[p]
                \/ token'[p].defined]_vars

\* C13 witness: a takeover used up its poll budget with the server still
\* answering.
C13_Witness ==
  \E p \in Procs, k \in Slots :
    /\ task[p][k].kind = "takeover"
    /\ task[p][k].pc = "pollResp"
    /\ task[p][k].polls = MaxPolls
    /\ task[p][k].resp

\* C18: without an explicit URI, a read check is allowed whenever there
\* is an active notebook editor, focused or not; a modify check is denied
\* as not focused when the window is unfocused and allowed, with the
\* notebook and its editor, when it is focused; both are denied with "No
\* active notebook" when there is no active notebook editor.
C18_FocusOnlyForModify ==
  (access.kind # "none" /\ access.uri = NoUri) =>
    /\ access.active = NoUri
       => ~access.allowed /\ access.error = ErrNoActive
    /\ (access.active # NoUri /\ access.kind = "read")
       => /\ access.allowed
          /\ access.notebook = access.active
          /\ access.editor = access.active
    /\ (access.active # NoUri /\ access.kind = "modify" /\ ~access.focused)
       => ~access.allowed /\ access.error = ErrNotFocused
    /\ (access.active # NoUri /\ access.kind = "modify" /\ access.focused)
       => /\ access.allowed
          /\ access.notebook = access.active
          /\ access.editor = access.active

\* C18 witness: a read check was allowed in an unfocused window.
C18_Witness ==
  /\ access.kind = "read"
  /\ access.uri = NoUri
  /\ ~access.focused
  /\ access.allowed

IndexOfKey(key) ==
  IF \E i \in 1..Len(cells) : cells[i].key = key
  THEN (CHOOSE i \in 1..Len(cells) : cells[i].key = key) - 1
  ELSE -1

\* The copy the move in call has inserted.
MovedKey == MaxDoc + nextKey

\* C14: moveCell deletes at from and re-inserts the copy at to - 1 when
\* from < to and at to when from > to, and the copy is then at that index;
\* notebook_move_cell with from = to issues no edit.
C14_MoveAdjustsIndex ==
  /\ (call.tool = "move" /\ call.result = "already")
     => call.from = call.to /\ call.ops = <<>>
  /\ (call.tool = "move" /\ (call.pc = "moveInserted" \/ call.result = "ok"))
     => /\ call.from # call.to
        /\ Len(call.ops) = 2
        /\ call.ops[1].op = "delete" /\ call.ops[1].at = call.from
        /\ call.ops[2].op = "insert"
        /\ call.from < call.to
           => /\ call.ops[2].at = call.to - 1
              /\ IndexOfKey(MovedKey) = call.to - 1
        /\ call.from > call.to
           => /\ call.ops[2].at = call.to
              /\ IndexOfKey(MovedKey) = call.to
        /\ cells[IndexOfKey(MovedKey) + 1].id = call.data.id
        /\ IndexOfKey(call.src) = -1

\* C14 witness: 2 to 5 in a document of six cells was inserted at 4.
C14_Witness ==
  /\ Len(cells) = 6
  /\ call.tool = "move" /\ call.result = "ok"
  /\ call.from = 2 /\ call.to = 5
  /\ call.ops[2].at = 4
  /\ IndexOfKey(MovedKey) = 4

\* C15: after a successful notebook_move_cell(from, to) with from # to and
\* nobody else editing, the moved cell is at index to, the position the
\* tool reports, and the number of cells is what it was.
C15_MovedCellAtTarget ==
  (call.tool = "move" /\ call.result = "ok")
    => IndexOfKey(MovedKey) = call.to

\* The tracked cell as a tick sees it.
TrackedPresent == \E i \in 1..Len(cells) : cells[i].id = TrackedId
TrackedDone ==
  \E i \in 1..Len(cells) :
    cells[i].id = TrackedId /\ cells[i].summary \in {"true", "false"}
IsTick == ticks' # ticks

\* C2: the wait resolves only on a poll tick that finds success a boolean;
\* a tick that finds the summary absent, or success undefined or not a
\* boolean, does not resolve it; the first tick that finds a boolean does.
C2_ResolvesOnlyOnBoolean ==
  [][/\ (wStatus' # wStatus) => (IsTick /\ wStatus = "pending")
     /\ (IsTick /\ wStatus = "pending") =>
          /\ (wStatus' = "resolved") <=> TrackedDone
          /\ (TrackedPresent /\ ~TrackedDone) => wStatus' \in {"pending", "timedOut"}]_vars

\* C2 witness: resolved on a later tick, after a tick that stayed pending.
C2_Witness == wStatus = "resolved" /\ ticks >= 2

\* C3: a tick that finds no cell with the tracked identifier fails the wait
\* with "Cell not found", also when the timeout has elapsed by then.
C3_MissingCellNotTimeout ==
  [][(IsTick /\ wStatus = "pending" /\ ~TrackedPresent)
       => wStatus' = "notFound"]_vars

\* C3 witness: the cell was found missing on a tick past the timeout.
C3_Witness == wStatus = "notFound" /\ lastTick > WaitTimeout

\* C6: when every window has finished its startup, exactly one is owner,
\* holding the socket, and every other one is Deferred on that same port.
C6_ExactlyOneOwner ==
  (\A p \in Procs : activated[p]) =>
    \E o \in Procs :
      /\ token[o].defined /\ ~token[o].isExistingServer
      /\ Holder(token[o].port) = {o}
      /\ \A r \in Procs \ {o} : token[r] = Result(token[o].port, TRUE)

\* C6 witness: both windows are through their startup on a free port.
C6_Witness == (\A p \in Procs : activated[p]) /\ ~foreignApp

\* The moved cell is deleted and not yet inserted again.
MidMove == call.pc = "moveDeleted" /\ call.ops[1].applied

\* C16: a move is one indivisible edit: while the moved cell is deleted and
\* not yet inserted again, nobody else takes a step on the document, and no
\* poll of a wait looks at it.
C16_MoveIndivisible ==
  [][(MidMove /\ call' = call) => (cells' = cells /\ ticks' = ticks)]_vars

\* A tool is called.
IsCall == call.pc = "idle" /\ call' # call

ModifyingTools ==
  {"insert", "edit", "delete", "move", "bulkAdd", "clearOutputs", "clearAll",
   "run"}

\* C20: the guard answers allowed or denied with one of its reasons; a
\* modifying tool called while the guard denies returns at once with an
\* error that carries the guard's reason, whatever its arguments are, has
\* issued no edit and no host command, and leaves the document as it was.
C20_DeniedToolDoesNothing ==
  [][/\ ToolGuard.allowed \in BOOLEAN
     /\ ToolGuard.allowed <=> ToolGuard.error = ""
     /\ ToolGuard.error \in {"", ErrNoActive, ErrNotFocused}
     /\ IsCall => call'.tool \in ModifyingTools
     /\ (IsCall /\ ~ToolGuard.allowed) =>
          /\ call'.pc = "idle"
          /\ call'.result = "error"
          /\ call'.error = ToolGuard.error
          /\ call'.ops = <<>>
          /\ cells' = cells
          /\ nextKey' = nextKey]_vars

\* C20 witness: the run of a cell of a notebook of two cells was refused
\* for lack of focus, and the window is still without focus.
C20_Witness ==
  /\ call.tool = "run" /\ call.result = "error" /\ call.error = ErrNotFocused
  /\ call.ops = <<>>
  /\ Len(cells) >= 2
  /\ ~Focused

\* The cell that got the n-th identifier at its insertion, and its lookup.
KeyOfId(n) == MaxDoc + n
Holds(cs, n) ==
  \E i \in 1..Len(cs) : cs[i].key = KeyOfId(n) /\ cs[i].id = IdPool[n]
Finds(cs, n) ==
  /\ FindCell(cs, IdPool[n]) # 0
  /\ cs[FindCell(cs, IdPool[n])].key = KeyOfId(n)
Sole(cs, n) ==
  \A i \in 1..Len(cs) : cs[i].id = IdPool[n] => cs[i].key = KeyOfId(n)

\* A step of a move of a cell that carries the n-th identifier.
MovesId(n) ==
  \/ call.pc = "moveDeleted" /\ call.data.id = IdPool[n]
  \/ call'.pc = "moveDeleted" /\ call'.data.id = IdPool[n]

\* C17: the cell that the insert tool has just inserted is the only one
\* with its identifier, and every later step that leaves that cell in the
\* document and is not a move of the cell with that identifier (an insert,
\* a delete or a move of other cells, by a tool or by the user) keeps it so;
\* the lookup of the identifier then returns that cell, at the index it has
\* now.
C17_LookupFollowsCell ==
  [][\A n \in 1..MaxKeys :
       /\ (IsCall /\ call'.tool = "insert" /\ call'.id = IdPool[n]
             /\ Holds(cells', n)) => (Sole(cells', n) /\ Finds(cells', n))
       /\ (Holds(cells, n) /\ Sole(cells, n) /\ Holds(cells', n)
             /\ ~MovesId(n)) => (Sole(cells', n) /\ Finds(cells', n))]_vars

\* C17 witness: a move of another cell has put a copy of it in front of the
\* identified cell, which is now at the last index, and the lookup finds it.
C17_Witness ==
  /\ call.tool = "move" /\ call.result = "ok" /\ call.src # KeyOfId(1)
  /\ call.from = 2 /\ call.to = 0
  /\ call.ops[1].applied /\ call.ops[2].applied
  /\ Holds(cells, 1) /\ Finds(cells, 1)
  /\ Len(cells) = 3
  /\ FindCell(cells, IdPool[1]) = 3

\* The handler of the insert tool goes on after its wait.
InsertCellResumes == call.pc = "waiting" /\ call'.pc = "idle"

\* C21: when the wait of the insert tool has timed out or lost the cell, the
\* tool returns a result (not a tool error) whose execution has success
\* false and the error message of the wait, while a completed execution,
\* failed or not, has no error; the return issues no further command and
\* leaves the document, with the inserted cell if it is there, as it is.
C21_WaitFailureIsDistinct ==
  [][InsertCellResumes =>
       /\ call'.result = "ok"
       /\ call'.ops = call.ops
       /\ cells' = cells
       /\ (wStatus = "resolved") =>
            (call'.error = "" /\ call'.success \in {"true", "false"})
       /\ (wStatus = "timedOut") =>
            /\ call'.success = "false"
            /\ call'.error = "Cell execution timed out"
            /\ FindCell(cells', call.id) # 0
       /\ (wStatus = "notFound") =>
            (call'.success = "false" /\ call'.error = "Cell not found")]_vars

\* C21 witness: the insert tool has returned the timeout of its wait; the
\* cell it inserted is in the document, its execution still under way.
C21_Witness ==
  /\ call.tool = "insert" /\ call.pc = "idle" /\ call.result = "ok"
  /\ call.error = "Cell execution timed out"
  /\ FindCell(cells, call.id) # 0
  /\ cells[FindCell(cells, call.id)].summary = "undef"
  /\ Len(call.ops) = 2

IndexTools == {"edit", "delete", "move", "run", "clearOutputs"}

\* C22: a call of the edit, delete, move, run or clear-outputs tool with an
\* index at or past the number of cells (for the move: either index) returns
\* at once with an error, has issued no edit and no command, and leaves the
\* document as it was.
C22_IndexOutOfRange ==
  [][(/\ IsCall
      /\ call'.tool \in IndexTools
      /\ (call'.from >= Len(cells) \/ call'.to >= Len(cells))) =>
       /\ call'.pc = "idle"
       /\ call'.result = "error"
       /\ call'.ops = <<>>
       /\ cells' = cells]_vars

\* C22 witness: with the notebook active and the window focused, a move to
\* the index just past the last cell was refused for its range.
C22_Witness ==
  /\ call.tool = "move" /\ call.result = "error"
  /\ call.error = "Cell index out of range"
  /\ call.from = 0 /\ call.to = Len(cells) /\ Len(cells) >= 2
  /\ ToolGuard.allowed

\* C23: a delete, bulk add or move that reports success has had every one
\* of its edits applied by the host.
C23_NoSuccessForRejectedEdit ==
  (call.tool \in {"delete", "bulkAdd", "move"} /\ call.result = "ok") =>
    \A i \in 1..Len(call.ops) : call.ops[i].applied

\* A bulk add that got past the guard: call.from holds n, call.to the
\* clamped index.
IsBulkAdd == IsCall /\ call'.tool = "bulkAdd" /\ call'.result # "error"

\* C24: a bulk add of n cells puts all n, in the given order and next to
\* each other, at the clamped index, in the one step of its edit, and the
\* document has n cells more after it.
C24_BulkAddAllAtOnce ==
  [][IsBulkAdd =>
       /\ Len(call'.ops) = 1
       /\ call'.to <= Len(cells)
       /\ Len(cells') = Len(cells) + call'.from
       /\ cells' = InsertAt(cells, call'.to, BulkCells(call'.from))]_vars

\* The insert tool goes on after its edit.
InsertCellLooksUp == call.pc = "inserted" /\ call'.pc # "inserted"

\* The execute commands among the edits and commands of a call.
Executes(ops) == {i \in 1..Len(ops) : ops[i].op = "execute"}

\* C25: after its edit the insert tool looks the new cell up by its
\* identifier in the document as it is then; not found, it returns "Failed
\* to create cell" and executes nothing; found, the index of the lookup is
\* the cellIndex it reports and the index of the execute command, which it
\* issues exactly when execute was asked for a code cell.  An applied insert
\* at the end of a document of n cells gives n + 1 cells, the new one last.
C25_InsertResolvesById ==
  [][/\ InsertCellLooksUp =>
          IF FindCell(cells, call.id) = 0
          THEN /\ call'.result = "error"
               /\ call'.error = "Failed to create cell"
               /\ call'.pc = "idle"
               /\ call'.ops = call.ops
          ELSE /\ call'.idx = FindCell(cells, call.id) - 1
               /\ cells[call'.idx + 1].id = call.id
               /\ IF call.exec
                  THEN /\ call'.ops = Append(call.ops,
                                             Op("execute", call'.idx, TRUE))
                       /\ call.data.kind = "code"
                  ELSE call'.ops = call.ops /\ call'.result = "ok"
     /\ (call.tool = "insert" /\ call'.tool = "insert") =>
          (Executes(call'.ops) # {} => (call'.exec /\ call'.data.kind = "code"))
     /\ (IsCall /\ call'.tool = "insert" /\ call'.result # "error"
           /\ call'.ops[1].applied /\ call'.to = Len(cells)) =>
          /\ Len(cells') = Len(cells) + 1
          /\ cells'[Len(cells')].id = call'.id
          /\ FindCell(cells', call'.id) - 1 = Len(cells)]_vars

\* C25 witness: the user has put a cell before the new one between the edit
\* and the lookup, and the execute command went to the index of the lookup.
C25_Witness ==
  /\ call.tool = "insert" /\ call.pc = "executing"
  /\ call.idx = call.to + 1
  /\ call.ops[2].op = "execute" /\ call.ops[2].at = call.idx
  /\ cells[call.idx + 1].id = call.id

\* C26: an insert of a cell at an index followed at once by a delete of the
\* cell at that index leaves the document with the cells it had, in the
\* order they had.
C26_InsertDeleteRoundTrip ==
  [][(call' # call /\ call'.tool = "roundTrip") => cells' = cells]_vars

\* The input and the outcome of the parse that was made last.
In == call.data
Out == call.ops[1]
IsWhole(v) == v.t = "number" /\ v.n % v.d = 0

\* C27: a parse rejects an input with an unknown field, a response_format
\* other than "markdown" and "json", and an index that is not a whole
\* number at or above 0; an accepted input comes out with its own index
\* and format, the format being "markdown" where none was given.
C27_InputsValidated ==
  call.tool = "parse" =>
    /\ (call.result = "ok") <=> Out.ok
    /\ In.unknown # Undef => ~Out.ok
    /\ In.response_format \notin {Undef, Str("markdown"), Str("json")}
         => ~Out.ok
    /\ (call.nb # "list" /\ In.index # Undef
          /\ ~(IsWhole(In.index) /\ In.index.n >= 0)) => ~Out.ok
    /\ (call.nb = "index" /\ In.index = Undef) => ~Out.ok
    /\ Out.ok =>
         /\ Out.response_format =
              (IF In.response_format = Undef THEN Str("markdown")
               ELSE In.response_format)
         /\ call.nb = "index" =>
              /\ Out.index.t = "number" /\ Out.index.d = 1
              /\ Out.index.n >= 0
              /\ Out.index.n * In.index.d = In.index.n
    /\ (/\ In.unknown = Undef
        /\ In.response_format \in {Undef, Str("markdown"), Str("json")}
        /\ call.nb = "index"
        /\ IsWhole(In.index) /\ In.index.n >= 0) => Out.ok

\* C27 witness: an index of 3/2 was rejected in an input that is right in
\* everything else.
C27_Witness ==
  /\ call.tool = "parse" /\ call.nb = "index" /\ call.result = "error"
  /\ In.index = Num(3, 2)
  /\ In.unknown = Undef /\ In.response_format = Undef

\* The silent delete of notebook_execute_code is issued.
IsSilentDelete == call.pc = "codeWaiting" /\ call'.pc = "codeDeleted"

\* C28: the silent delete of notebook_execute_code is addressed to the index
\* that the cell it inserted has at that moment, so that an applied delete
\* takes exactly that cell out and leaves every other cell.
C28_SilentDeleteHitsOwnCell ==
  [][IsSilentDelete =>
       /\ call'.ops[Len(call'.ops)].at = FindCell(cells, call.id) - 1
       /\ call'.ops[Len(call'.ops)].applied =>
            cells' = DeleteAt(cells, FindCell(cells, call.id) - 1, 1)]_vars

\* A round of the poll loop of the run tool has looked at a cell.
IsRunRound ==
  /\ \/ call.pc = "runStarted"
     \/ call.pc = "runPolling" /\ lastTick' # lastTick
  /\ call'.pc = "runPolling" \/ call'.result = "ok"

\* C29: every round of the poll loop of the run tool looks at the cell that
\* the host gives for the index the caller gave, whichever cell that is by
\* then, and the result is the execution state of that cell; the call uses
\* no tracking identifier.
C29_RunPollsByIndex ==
  [][IsRunRound =>
       /\ Len(cells) > 0
       /\ call'.idx = cells[CellAtIndex(cells, call.from)].key
       /\ call'.id = NoId
       /\ call'.result = "ok" =>
            call'.success = cells[CellAtIndex(cells, call.from)].summary]_vars

\* C29 witness: the run tool has returned the execution state of a cell
\* other than the one it executed, which is still in the document.
C29_Witness ==
  /\ call.tool = "run" /\ call.pc = "idle" /\ call.result = "ok"
  /\ call.idx # call.src
  /\ \E i \in 1..Len(cells) : cells[i].key = call.src

\* The wait has ended: Completed, TimedOut or CellMissing.
WaitEnded == wStatus \in {"resolved", "timedOut", "notFound"}

\* C30: a wait is pending or has ended in exactly one of Completed, TimedOut
\* and CellMissing; once ended its outcome never changes and no tick runs
\* again; its timer runs exactly while it is pending; and a tick that comes
\* when more than the timeout has elapsed ends it, so no wait is pending
\* after such a tick.
C30_WaitSettlesOnce ==
  [][/\ wStatus \in {"pending", "resolved", "timedOut", "notFound"}
     /\ interval <=> wStatus = "pending"
     /\ interval' <=> wStatus' = "pending"
     /\ WaitEnded => wStatus' = wStatus /\ ~IsTick
     /\ (IsTick /\ now > WaitTimeout) => WaitEnded'
     /\ wStatus' = "pending" => lastTick' <= WaitTimeout]_vars

\* C30 witness: the wait timed out, its timer stopped, on the first tick
\* past the timeout, after earlier ticks that left it pending.
C30_Witness ==
  /\ wStatus = "timedOut" /\ ~interval /\ ticks >= 2
  /\ lastTick > WaitTimeout /\ lastTick - PollInterval <= WaitTimeout

\* C31: a step of the wait (a tick of its timer, from its start to the tick
\* that ends it) leaves every cell and the order of the cells as they are and
\* issues no edit or command.
C31_WaitOnlyObserves ==
  [][IsTick => cells' = cells /\ call' = call]_vars

\* C31 witness: the wait has ended after several ticks, and the document is
\* one that the kernel and the user have changed.
C31_Witness ==
  /\ WaitEnded /\ ticks >= 2
  /\ Len(cells) = MaxCells
  /\ \E i \in 1..Len(cells) : cells[i].id = TrackedId /\ cells[i].summary = "true"

\* C32: no tool call ends in an exception that its handler let through: a
\* call that was suspended while the document shrank ends with a result or
\* an error message of its own.
C32_NoUnhandledFault == call.result # "fault"

\* The edits and commands that a step of a tool call issues.
Issued ==
  IF call' = call THEN <<>>
  ELSE IF call.pc = "idle" THEN call'.ops
  ELSE SubSeq(call'.ops, Len(call.ops) + 1, Len(call'.ops))

\* C33: every insert that a tool issues is at an index from 0 to the number
\* of cells the document has when the edit is issued; this holds for the
\* insert tool, for bulk add and for the re-insert of a move.
C33_InsertWithinDocument ==
  [][\A k \in 1..Len(Issued) :
       Issued[k].op = "insert" => Issued[k].at \in 0..Len(cells)]_vars

\* C34: in every state a process's token says owner exactly when the process
\* holds the listening socket of the token's port, and the httpServer of a
\* process that holds a listening socket refers to that listener.
C34_TokenMatchesSocket ==
  \A p \in Procs :
    /\ IsOwner(p) <=> <<p, token[p].port>> \in listeners
    /\ \A q \in Ports : <<p, q>> \in listeners => httpServer[p] = PortRef(q)

\* Process p has answered a release request and closed its socket: it is a
\* former owner, holding no listening socket.
Released(p) ==
  /\ relCb[p] > 0 \/ IsDeferred(p)
  /\ \A q \in Ports : <<p, q>> \notin listeners

\* C35: when the debounce timer of a focus gain fires in a released former
\* owner that has no call in flight, the process attempts a takeover (it
\* sends a release request), it does not take itself for the owner.
C35_ReleasedOwnerTakesOverAgain ==
  [][\A p \in Procs :
       (/\ timers'[p] < timers[p]
        /\ Released(p)
        /\ \A k \in Slots : task[p][k].pc = "idle")
       => \E k \in Slots : task'[p][k].kind = "takeover"
                            /\ task'[p][k].pc = "relReq"]_vars

C37_CompletionBeforeTimeout ==
  [][/\ (IsTick /\ TrackedDone) => wStatus' = "resolved"
     /\ (IsTick /\ wStatus' = "timedOut") =>
          (TrackedPresent /\ ~TrackedDone /\ now > WaitTimeout)
     /\ (IsTick /\ TrackedPresent /\ ~TrackedDone /\ now > WaitTimeout) =>
          wStatus' = "timedOut"
     /\ IsTick => now >= PollInterval
     /\ wStatus' # wStatus => IsTick]_vars

\* C37 witness: the wait resolved on a tick that came after the timeout had
\* elapsed.
C37_Witness == wStatus = "resolved" /\ lastTick > WaitTimeout

\* C38: every edit and every execute command that a modifying tool issues
\* is issued while the window has focus, those after an await of the call
\* included, and goes to the notebook that the guard gave at the start of
\* the call.
C38_WritesOnlyWhileFocused ==
  [][Issued # <<>> =>
       /\ \A k \in 1..Len(Issued) : Issued[k].focused
       /\ call.pc = "idle" => call'.nb = ToolGuard.notebook
       /\ call.pc # "idle" => call'.nb = call.nb]_vars

\* A cell of the document as it was before any move.
Original(key) == DocOf(MaxDoc)[key]

\* C39: after a completed move of a cell of the original document, the copy
\* at its new place has the kind, the metadata (identifier) and the
\* execution summary that the cell had before the move, and the other cells
\* of the original document are unchanged and in the order they were in.
C39_MoveKeepsCell ==
  (call.tool = "move" /\ call.result = "ok" /\ call.src \in 1..MaxDoc) =>
    /\ IndexOfKey(MovedKey) >= 0
    /\ cells[IndexOfKey(MovedKey) + 1].kind = Original(call.src).kind
    /\ cells[IndexOfKey(MovedKey) + 1].id = Original(call.src).id
    /\ cells[IndexOfKey(MovedKey) + 1].summary = Original(call.src).summary
    /\ \A i \in 1..Len(cells) :
         cells[i].key \in 1..MaxDoc =>
           /\ cells[i] = Original(cells[i].key)
           /\ \A j \in 1..(i - 1) :
                cells[j].key \in 1..MaxDoc => cells[j].key < cells[i].key

====
